---- MODULE Spec2Model ----
(***************************************************************************)
(* Maxwell knowledge base: the SQLite store (knowledge / patterns /        *)
(* reference collections with their FTS5 shadow indexes), the reference    *)
(* import, the schema migration, the two hybrid search front ends          *)
(* (maxwell-hybrid-search.py, maxwell-token-optimized.py) and the cached   *)
(* knowledge search (maxwell-knowledge-base.py).                           *)
(*                                                                         *)
(* Text is a sequence of one-character strings.  A document's content is   *)
(* the set of words it contains; an FTS5 index is its posting set, the     *)
(* pairs <<rowid, word>>.                                                  *)
(***************************************************************************)
EXTENDS Integers, Sequences, FiniteSets, TLC

VARIABLES
  repo,           \* the *.md files present under ~/.claude/resources/knowledge/maxwell
  tables,         \* names of the tables that exist in maxwell.db
  knowledge,      \* rows of table knowledge
  knowledge_fts,  \* postings of knowledge_fts
  relations,      \* rows of table relations: (source_id, target_id) pairs
  patterns,       \* rows of table patterns
  patterns_fts,   \* postings of patterns_fts
  reference,      \* rows of table reference
  reference_fts,  \* postings of reference_fts
  hashfn,         \* str.__hash__ of the running interpreter (salted per process)
  cache,          \* MaxwellKnowledgeBase.cache: (key, result) pairs in insertion order
  stats,          \* MaxwellKnowledgeBase.stats
  hstats,         \* MaxwellHybridKnowledgeBase.stats
  call,           \* the last operation called, with its arguments and what it did
  ret,            \* what the last operation returned (or the exception it raised)
  prev,           \* the solve call before the last one, while no write intervened
  imp,            \* the last reference import: what it was given, row counts around it
  insertedAt,     \* cache key -> number of the insertion that put it in the cache
  tick,           \* number of cache insertions so far
  asked           \* highest query number asked so far (cache specification)

storeVars == <<tables, knowledge, knowledge_fts, relations, patterns, patterns_fts,
               reference, reference_fts>>
vars == <<repo, tables, knowledge, knowledge_fts, relations, patterns, patterns_fts, reference,
          reference_fts, hashfn, cache, stats, hstats, call, ret, prev, imp,
          insertedAt, tick, asked>>

-----------------------------------------------------------------------------
(* Bounds of the model *)

\* largest rowid the reference table may reach (every reimport draws fresh rowids)
MaxRowid == 6
\* number of solve_developer_problem calls one MaxwellKnowledgeBase object serves
MaxCalls == 3
\* number of search calls one MaxwellHybridKnowledgeBase object serves
MaxHybridCalls == 2
\* number of distinct queries of the cache specification
MaxWord == 52
\* most rows the patterns table is let grow to
MaxPatternRows == 9
MaxFiles == 2
MaxFindings == 2

(* Program constants *)

cache_limit == 50
HashMod == 10000
MinFileSize == 200
PatternLimit == 3
DefaultLimit == 5
\* duplicate_detector.py: length of content_preview, rows sampled per library
PreviewLimit == 500
SampleLimit == 5

-----------------------------------------------------------------------------
(* Text *)

Letters == {"a", "b"}

None == "None"

\* the n-th word over Letters (1 -> a, 2 -> b, 3 -> aa, 4 -> ab, ...)
RECURSIVE Word(_)
Word(n) ==
  IF n = 0 THEN <<>>
  ELSE Word((n - 1) \div 2) \o << IF (n - 1) % 2 = 0 THEN "a" ELSE "b" >>

Wa == <<"a">>
Wb == <<"b">>

\* the words of a text: its maximal runs of letters, in order
RECURSIVE WordsFrom(_, _, _)
WordsFrom(q, i, cur) ==
  IF i > Len(q) THEN (IF cur = <<>> THEN <<>> ELSE <<cur>>)
  ELSE IF q[i] \in Letters THEN WordsFrom(q, i + 1, Append(cur, q[i]))
  ELSE (IF cur = <<>> THEN <<>> ELSE <<cur>>) \o WordsFrom(q, i + 1, <<>>)

Words(q) == WordsFrom(q, 1, <<>>)

Range(s) == {s[i] : i \in 1..Len(s)}

\* json.dumps / json.loads on a tag list
JsonDumps(tags) == <<"json", tags>>
JsonLoads(text) == text[2]

-----------------------------------------------------------------------------
(* SQLite: rowids, FTS5 MATCH, bm25 order *)

OperationalError == [raised |-> "sqlite3.OperationalError"]

Raised(r) == DOMAIN r = {"raised"}

\* the rowid SQLite gives the next inserted row: one more than the largest present
NextRowid(rows) ==
  IF rows = {} THEN 1
  ELSE (CHOOSE x \in {r.rowid : r \in rows} : \A y \in {r.rowid : r \in rows} : y <= x) + 1

RECURSIVE ParensBalanced(_, _, _)
ParensBalanced(q, i, d) ==
  IF i > Len(q) THEN d = 0
  ELSE IF q[i] = "(" THEN ParensBalanced(q, i + 1, d + 1)
  ELSE IF q[i] = ")" THEN d > 0 /\ ParensBalanced(q, i + 1, d - 1)
  ELSE ParensBalanced(q, i + 1, d)

\* the FTS5 query parser accepts barewords, blanks and balanced groups; '@', '.'
\* and '\' are no tokens of its grammar, ':' is a filter on a column the index
\* does not have, and a query without any term is a syntax error
Fts5Accepts(q) ==
  /\ \A i \in 1..Len(q) : q[i] \in Letters \cup {" ", "(", ")"}
  /\ ParensBalanced(q, 1, 0)
  /\ Words(q) # <<>>

DocLen(index, r) == Cardinality({p \in index : p[1] = r})

\* ORDER BY bm25(...): at equal term frequency the shorter document ranks first
Bm25Before(index, r1, r2) ==
  \/ DocLen(index, r1) < DocLen(index, r2)
  \/ DocLen(index, r1) = DocLen(index, r2) /\ r1 < r2

RECURSIVE Bm25Order(_, _)
Bm25Order(index, S) ==
  IF S = {} THEN <<>>
  ELSE LET best == CHOOSE r \in S : \A o \in S \ {r} : Bm25Before(index, r, o)
       IN <<best>> \o Bm25Order(index, S \ {best})

\* SELECT ... FROM x_fts JOIN x ON x.rowid = x_fts.rowid WHERE x_fts MATCH ?
\* ORDER BY bm25(x_fts) LIMIT ?
FtsSelect(rows, index, q, limit) ==
  LET \* rowids whose postings contain every term of the query (implicit AND)
      matched == {m \in {p[1] : p \in index} :
                    \A w \in Range(Words(q)) : <<m, w>> \in index}
      hits == {rid \in matched : \E r \in rows : r.rowid = rid}
      ordered == Bm25Order(index, hits)
      n == IF limit < 0 \/ limit > Len(ordered) THEN Len(ordered) ELSE limit
  IN [i \in 1..n |-> (CHOOSE r \in rows : r.rowid = ordered[i])]

Postings(rid, content) == {<<rid, w>> : w \in content}

-----------------------------------------------------------------------------
(* The knowledge repository (maxwell-knowledge-base.py) *)

\* a file of the repository; links are the titles its content names in
\* [[...]], in the order of the text
F1 == [path |-> "tca/s.md", name |-> "s.md", title |-> "S", content |-> {Wa},
       tags |-> <<"tca">>, size |-> 300, links |-> <<>>]
F2 == [path |-> "swiftui/t.md", name |-> "t.md", title |-> "T", content |-> {Wa, Wb},
       tags |-> <<>>, size |-> 300, links |-> <<>>]

KFiles == {F1, F2,
           [path |-> "errors/n.md", name |-> "n.md", title |-> "N", content |-> {Wb},
            tags |-> <<>>, size |-> 100, links |-> <<>>]}

\* the orders in which Path.rglob may list a set of files
Orders(S) ==
  {o \in [1..Cardinality(S) -> S] : \A i, j \in 1..Cardinality(S) : o[i] = o[j] => i = j}

\* _extract_relations after its DELETE: one INSERT INTO relations per link whose
\* title _find_document_by_title finds (the first row by rowid whose title is
\* LIKE the link; the titles of the model contain one another only when
\* equal).  relations has PRIMARY KEY (source_id, target_id): the INSERT of a
\* pair already present raises IntegrityError, which ends the method with the
\* edges inserted so far.
RECURSIVE InsertRelations(_, _, _, _, _)
InsertRelations(rows, edges, doc_id, links, i) ==
  IF i > Len(links) THEN [relations |-> edges, raised |-> FALSE]
  ELSE LET found == {r \in rows : r.title = links[i]}
           target == (CHOOSE r \in found : \A o \in found : r.rowid <= o.rowid).id
       IN IF found = {} THEN InsertRelations(rows, edges, doc_id, links, i + 1)
          ELSE IF <<doc_id, target>> \in edges
          THEN [relations |-> edges, raised |-> TRUE]
          ELSE InsertRelations(rows, edges \cup {<<doc_id, target>>}, doc_id, links, i + 1)

\* _import_markdown_file: INSERT INTO knowledge raises IntegrityError on a taken
\* id (the file name).  The handler catches whatever is raised and returns
\* False without a rollback, so the statements run before the failure stay in
\* the transaction the next commit makes durable.  failed collects the files
\* for which the method returned False.
ImportMarkdownFile(db, f) ==
  IF \E r \in db.knowledge : r.id = f.name
  THEN [db EXCEPT !.failed = @ \cup {f.name}]
  ELSE LET rid == NextRowid(db.knowledge)
           row == [rowid |-> rid, id |-> f.name, title |-> f.title,
                   content |-> f.content, tags |-> JsonDumps(f.tags)]
           kept == {e \in db.relations : e[1] # f.name}
           extracted == InsertRelations(db.knowledge \cup {row}, kept, f.name, f.links, 1)
       IN [knowledge |-> db.knowledge \cup {row},
           knowledge_fts |-> db.knowledge_fts \cup Postings(rid, f.content),
           relations |-> extracted.relations,
           failed |-> IF extracted.raised THEN db.failed \cup {f.name} ELSE db.failed]

\* _import_knowledge_content: every file above the size threshold, in rglob order
RECURSIVE ImportKnowledgeContent(_, _, _)
ImportKnowledgeContent(db, files, i) ==
  IF i > Len(files) THEN db
  ELSE ImportKnowledgeContent(
         IF files[i].size > MinFileSize THEN ImportMarkdownFile(db, files[i]) ELSE db,
         files, i + 1)

KnowledgeTables == {"knowledge", "knowledge_fts", "relations"}

\* the three tables after _initialize_database has created them
EmptyKnowledge == [knowledge |-> {}, knowledge_fts |-> {}, relations |-> {}, failed |-> {}]

KnowledgeIs(db) ==
  knowledge = db.knowledge /\ knowledge_fts = db.knowledge_fts /\ relations = db.relations

\* _load_or_import_knowledge
LoadOrImportKnowledge(db, files) ==
  IF db.knowledge # {} THEN db ELSE ImportKnowledgeContent(db, files, 1)

-----------------------------------------------------------------------------
(* MaxwellKnowledgeBase: cached search *)

SanitizedChars == {"@", ":", "(", ")", "."}

\* query.replace('@', ' ').replace(':', ' ').replace('(', ' ').replace(')', ' ').replace('.', ' ')
clean_query(q) == [i \in 1..Len(q) |-> IF q[i] \in SanitizedChars THEN " " ELSE q[i]]

\* hashlib.md5(query.encode()).hexdigest(): a digest of the exact text, not
\* normalised; distinct texts of the model have distinct digests
get_cache_key(q) == <<"md5", q>>

CacheKeys == {cache[i][1] : i \in 1..Len(cache)}

\* self.cache[key]
CacheValue(key) == cache[CHOOSE i \in 1..Len(cache) : cache[i][1] = key][2]

\* the FTS5 statement of _search_knowledge raises when the sanitised query is
\* rejected by the FTS5 parser (nothing catches it)
KB_search_raises(q) == ~Fts5Accepts(clean_query(q))

\* _search_knowledge: sanitise, then the FTS5 query
KB_search_knowledge(q, limit) ==
  LET rows == FtsSelect(knowledge, knowledge_fts, clean_query(q), limit)
  IN [i \in 1..Len(rows) |->
        [id |-> rows[i].id, title |-> rows[i].title, content |-> rows[i].content,
         tags |-> JsonLoads(rows[i].tags)]]

\* _reason_about_problem: the canned text for a query that names none of the
\* keywords error, compilation, memory, leak, tca, reducer
reason_about_problem(q) == "general_development_advice"

\* a dict assignment d[key] = value: a present key keeps its place
DictSet(d, key, value) ==
  IF \E i \in 1..Len(d) : d[i][1] = key
  THEN [i \in 1..Len(d) |-> IF d[i][1] = key THEN <<key, value>> ELSE d[i]]
  ELSE Append(d, <<key, value>>)

\* _cache_result testing len(self.cache) > self.cache_limit
cache_result_late(c, key, result) ==
  DictSet(IF Len(c) > cache_limit THEN Tail(c) ELSE c, key, result)

\* _cache_result: at capacity drop next(iter(self.cache)), then store
cache_result(c, key, result) ==
  DictSet(IF Len(c) >= cache_limit THEN Tail(c) ELSE c, key, result)

\* the cache-hit branch reading 'source' from the wrong key
CachedReply_wrong_source(cached) ==
  [status |-> cached.status, solution |-> cached.solution, source |-> cached.reasoning,
   response_time |-> cached.response_time, reasoning |-> cached.reasoning]

\* the dict the cache-hit branch of solve_developer_problem builds
CachedReply(cached) ==
  [status |-> cached.status, solution |-> cached.solution, source |-> cached.source,
   response_time |-> cached.response_time, reasoning |-> cached.reasoning]

\* the result dict of the search branch
SearchReply(results, q, t) ==
  IF results # <<>>
  THEN [status |-> "knowledge_found", solution |-> results[1].content,
        source |-> results[1].title, response_time |-> t,
        reasoning |-> "Found relevant solution in knowledge base",
        tags |-> results[1].tags]
  ELSE [status |-> "reasoning_required", solution |-> reason_about_problem(q),
        source |-> "general_reasoning", response_time |-> t,
        reasoning |-> "Applied general development principles and best practices"]

Times == {1, 2}

\* the cached key whose insertion is the earliest, by the insertion numbers
OldestKey ==
  IF cache = <<>> THEN None
  ELSE CHOOSE k \in CacheKeys : \A j \in CacheKeys : insertedAt[k] <= insertedAt[j]

NoCall == [op |-> "none"]

\* solve_developer_problem(query); t is the search time the clock measures
solve_developer_problem(q, t) ==
  LET key == get_cache_key(q)
      counted == [stats EXCEPT !.total_queries = @ + 1]
  IN /\ prev' = IF call.op = "solve" THEN [op |-> "solve", query |-> call.query,
                                             cache_hit |-> call.cache_hit, ret |-> ret]
                ELSE NoCall
     /\ IF key \in CacheKeys
        THEN /\ stats' = [counted EXCEPT !.cache_hits = @ + 1]
             /\ ret' = CachedReply(CacheValue(key))
             /\ call' = [op |-> "solve", query |-> q, cache_hit |-> TRUE,
                         index_queries |-> 0, kb_hits_before |-> stats.kb_hits,
                         sent |-> None, original |-> CacheValue(key), evicted |-> {},
                         oldest |-> OldestKey, len_before |-> Len(cache)]
             /\ UNCHANGED <<cache, insertedAt, tick>>
        ELSE IF KB_search_raises(q)
        THEN /\ stats' = counted
             /\ ret' = OperationalError
             /\ call' = [op |-> "solve", query |-> q, cache_hit |-> FALSE,
                         index_queries |-> 1, kb_hits_before |-> stats.kb_hits,
                         sent |-> clean_query(q), original |-> NoCall, evicted |-> {},
                         oldest |-> OldestKey, len_before |-> Len(cache)]
             /\ UNCHANGED <<cache, insertedAt, tick>>
        ELSE LET results == KB_search_knowledge(q, DefaultLimit)
                 result == SearchReply(results, q, t)
             IN /\ stats' = IF results # <<>> THEN [counted EXCEPT !.kb_hits = @ + 1]
                            ELSE counted
                /\ cache' = cache_result(cache, key, result)
                /\ ret' = result
                /\ tick' = tick + 1
                /\ insertedAt' =
                     [k \in {cache'[i][1] : i \in 1..Len(cache')} |->
                        IF k = key THEN tick + 1 ELSE insertedAt[k]]
                /\ call' = [op |-> "solve", query |-> q, cache_hit |-> FALSE,
                            index_queries |-> 1, kb_hits_before |-> stats.kb_hits,
                            sent |-> clean_query(q), original |-> NoCall,
                            evicted |-> CacheKeys \ {cache'[i][1] : i \in 1..Len(cache')},
                            oldest |-> OldestKey, len_before |-> Len(cache)]
     /\ UNCHANGED <<repo, storeVars, hashfn, hstats, imp>>

\* an update that also empties the query cache
update_knowledge_base_clearing_cache(order) ==
  LET db == ImportKnowledgeContent(
              [knowledge |-> {}, knowledge_fts |-> knowledge_fts, relations |-> {},
               failed |-> {}], order, 1)
  IN /\ knowledge' = db.knowledge
     /\ knowledge_fts' = db.knowledge_fts
     /\ relations' = db.relations
     /\ cache' = <<>>
     /\ insertedAt' = [k \in {} |-> 0]
     /\ call' = [op |-> "update", failed |-> db.failed]
     /\ ret' = NoCall
     /\ prev' = NoCall
     /\ UNCHANGED <<repo, tables, patterns, patterns_fts, reference, reference_fts,
                    hashfn, stats, hstats, imp, tick, asked>>

\* update_knowledge_base: DELETE FROM knowledge, knowledge_fts, relations, then
\* _import_knowledge_content.  knowledge_fts is an external-content index over
\* knowledge: emptied after its content table, its DELETE finds no row to
\* un-index and the old postings stay
update_knowledge_base(order) ==
  LET db == ImportKnowledgeContent(
              [knowledge |-> {}, knowledge_fts |-> knowledge_fts, relations |-> {},
               failed |-> {}], order, 1)
  IN /\ knowledge' = db.knowledge
     /\ knowledge_fts' = db.knowledge_fts
     /\ relations' = db.relations
     /\ call' = [op |-> "update", failed |-> db.failed]
     /\ ret' = NoCall
     /\ prev' = NoCall
     /\ UNCHANGED <<repo, tables, patterns, patterns_fts, reference, reference_fts,
                    hashfn, cache, stats, hstats, imp, insertedAt, tick, asked>>

\* the operator adds a file to the repository directory or removes one
EditRepository(f) ==
  /\ repo' = IF f \in repo THEN repo \ {f} ELSE repo \cup {f}
  /\ UNCHANGED <<storeVars, hashfn, cache, stats, hstats, call, ret, prev, imp,
                 insertedAt, tick, asked>>

\* statistics that start with a hit already counted
ZeroStats_hit_counted == [total_queries |-> 0, kb_hits |-> 1, cache_hits |-> 0]

\* self.stats of a new object
ZeroStats == [total_queries |-> 0, kb_hits |-> 0, cache_hits |-> 0]
ZeroHybridStats == [total_queries |-> 0, pattern_hits |-> 0, reference_hits |-> 0]

-----------------------------------------------------------------------------
(* migrate-database.py: reference import and schema migration *)

\* docs_root.rglob("*.md") of the documentation directory
DocsTree ==
  << [relpath |-> "a.md", stem |-> "a", folder_path |-> "root", title |-> "A",
      content |-> {Wa}],
     [relpath |-> "Articles/a.md", stem |-> "a", folder_path |-> "Articles",
      title |-> "AA", content |-> {Wa, Wb}] >>

RelPaths == {DocsTree[i].relpath : i \in 1..Len(DocsTree)}

DocsPaths == {"docs", "nowhere"}

\* values hash(str) takes; the salt of str hashing is drawn anew by every
\* interpreter start, so the function from text to value differs between processes
HashFns == [RelPaths -> {3, 7, -9997}]

\* _classify_document_type on the folders of DocsTree
classify_document_type(folder_path) ==
  IF folder_path = "Articles" THEN "article" ELSE "documentation"

\* one pass of the loop body: INSERT OR REPLACE INTO reference, then
\* INSERT INTO reference_fts at last_insert_rowid(); an exception ends the pass
ImportReferenceFile(db, f, library, h) ==
  IF "reference" \notin tables THEN db
  ELSE LET \* f"{library_name}_{md_file.stem}_{hash(str(relative_path)) % 10000}"
           doc_id == <<library, f.stem, h[f.relpath] % HashMod>>
           rid == NextRowid(db.reference)
           row == [rowid |-> rid, id |-> doc_id, title |-> f.title,
                   content |-> f.content, folder_path |-> f.folder_path,
                   library |-> library, file_path |-> f.relpath,
                   summary |-> f.title,
                   tags |-> JsonDumps(<<library, classify_document_type(f.folder_path)>>)]
           rows == {r \in db.reference : r.id # doc_id} \cup {row}
       IN IF "reference_fts" \notin tables
          THEN [reference |-> rows, reference_fts |-> db.reference_fts]
          ELSE [reference |-> rows,
                reference_fts |-> db.reference_fts \cup Postings(rid, f.content)]

RECURSIVE ImportReferenceFiles(_, _, _, _, _)
ImportReferenceFiles(db, files, i, library, h) ==
  IF i > Len(files) THEN db
  ELSE ImportReferenceFiles(ImportReferenceFile(db, files[i], library, h),
                            files, i + 1, library, h)

NoImport == [op |-> "none"]

\* import_reference_documentation(docs_path, library_name)
import_reference_documentation(docs_path, library) ==
  /\ NextRowid(reference) - 1 + Len(DocsTree) <= MaxRowid
  /\ IF docs_path # "docs"
     THEN /\ ret' = [returned |-> FALSE]
          /\ UNCHANGED <<reference, reference_fts, imp>>
     ELSE LET db == ImportReferenceFiles(
                      [reference |-> reference, reference_fts |-> reference_fts],
                      DocsTree, 1, library, hashfn)
          IN /\ reference' = db.reference
             /\ reference_fts' = db.reference_fts
             /\ ret' = [returned |-> TRUE]
             /\ imp' = [op |-> "import", docs_path |-> docs_path, library |-> library,
                        hashfn |-> hashfn,
                        repeat |-> /\ imp.op = "import"
                                   /\ imp.docs_path = docs_path
                                   /\ imp.library = library,
                        same_hash |-> imp.op = "import" /\ imp.hashfn = hashfn,
                        before |-> Cardinality(reference),
                        after |-> Cardinality(db.reference)]
  /\ call' = [op |-> "import", docs_path |-> docs_path]
  /\ prev' = NoCall
  /\ UNCHANGED <<repo, tables, knowledge, knowledge_fts, relations, patterns,
                 patterns_fts, hashfn, cache, stats, hstats, insertedAt, tick, asked>>

\* a new interpreter process opens the database: str hashing is salted anew
NewProcess(h) ==
  /\ hashfn' = h
  /\ UNCHANGED <<repo, storeVars, cache, stats, hstats, call, ret, prev, imp,
                 insertedAt, tick, asked>>

\* CREATE TABLE patterns AS SELECT * FROM knowledge: the rows in rowid order,
\* numbered from 1; the copy has no primary key
RECURSIVE CopyRows(_, _)
CopyRows(rows, n) ==
  IF rows = {} THEN {}
  ELSE LET first == CHOOSE r \in rows : \A o \in rows : r.rowid <= o.rowid
       IN {[first EXCEPT !.rowid = n]} \cup CopyRows(rows \ {first}, n + 1)

\* migrate_to_hybrid_schema.  The statement
\* CREATE TABLE reference ( ... tags TEXT,  # JSON array of tags ...
\* is rejected by SQLite: '#' opens no SQL comment
migrate_to_hybrid_schema ==
  /\ call' = [op |-> "migrate"]
  /\ prev' = NoCall
  /\ IF "patterns" \notin tables /\ "knowledge" \notin tables
     THEN /\ ret' = OperationalError
          /\ UNCHANGED <<tables, patterns, patterns_fts>>
     ELSE LET created == "patterns" \notin tables
              rows == IF created THEN CopyRows(knowledge, 1) ELSE patterns
          IN /\ patterns' = rows
             /\ IF "reference" \notin tables
                THEN /\ ret' = OperationalError
                     /\ tables' = tables \cup {"patterns"}
                     /\ UNCHANGED patterns_fts
                ELSE /\ ret' = [returned |-> None]
                     /\ tables' = tables \cup {"patterns", "reference", "patterns_fts",
                                               "reference_fts"}
                     \* _rebuild_patterns_fts: one INSERT INTO patterns_fts per
                     \* row of patterns
                     /\ patterns_fts' =
                          patterns_fts \cup UNION {Postings(r.rowid, r.content) : r \in rows}
  /\ UNCHANGED <<repo, knowledge, knowledge_fts, relations, reference, reference_fts, hashfn,
                 cache, stats, hstats, imp, insertedAt, tick, asked>>

\* MaxwellKnowledgeBase(): _initialize_database, _load_or_import_knowledge, with
\* an empty cache and zeroed counters
MaxwellKnowledgeBase(order) ==
  LET db == LoadOrImportKnowledge(
              [knowledge |-> knowledge, knowledge_fts |-> knowledge_fts,
               relations |-> relations, failed |-> {}], order)
  IN /\ tables' = tables \cup KnowledgeTables
     /\ knowledge' = db.knowledge
     /\ knowledge_fts' = db.knowledge_fts
     /\ relations' = db.relations
     /\ cache' = <<>>
     /\ stats' = ZeroStats
     /\ insertedAt' = [k \in {} |-> 0]
     /\ tick' = 0
     /\ call' = [op |-> "construct", failed |-> db.failed]
     /\ ret' = [returned |-> None]
     /\ prev' = NoCall
     /\ UNCHANGED <<repo, patterns, patterns_fts, reference, reference_fts, hashfn,
                    hstats, imp, asked>>

-----------------------------------------------------------------------------
(* The two-stage search front ends *)

\* the FTS5 statement over a collection raises OperationalError when a table
\* it names is missing or the FTS5 parser rejects the query text
FtsStatementRaises(table, index, q) ==
  table \notin tables \/ index \notin tables \/ ~Fts5Accepts(q)

\* MaxwellHybridKnowledgeBase._search_patterns raises: its fallback,
\* SELECT ... FROM knowledge WHERE knowledge_fts MATCH ?, names knowledge_fts as a
\* column of knowledge, outside any try
Hybrid_search_patterns_raises(q) ==
  LET \* the columns of table knowledge (CREATE TABLE IF NOT EXISTS knowledge)
      KnowledgeColumns == {"id", "title", "content", "folder", "tags", "source_file",
                           "word_count", "created_at", "updated_at"}
      LegacyStatementRaises ==
        \/ "knowledge" \notin tables
        \/ "knowledge_fts" \notin KnowledgeColumns
        \/ ~Fts5Accepts(q)
  IN FtsStatementRaises("patterns", "patterns_fts", q) /\ LegacyStatementRaises

\* MaxwellHybridKnowledgeBase._search_patterns returns
Hybrid_search_patterns(q, limit) ==
  IF FtsStatementRaises("patterns", "patterns_fts", q)
  THEN FtsSelect(knowledge, knowledge_fts, q, limit)
  ELSE FtsSelect(patterns, patterns_fts, q, limit)

\* MaxwellHybridKnowledgeBase._search_reference
Hybrid_search_reference(q, limit) ==
  IF FtsStatementRaises("reference", "reference_fts", q) THEN <<>>
  ELSE FtsSelect(reference, reference_fts, q, limit)

\* MaxwellTokenOptimized._search_patterns
Token_search_patterns(q, limit) ==
  IF FtsStatementRaises("patterns", "patterns_fts", q) THEN <<>>
  ELSE FtsSelect(patterns, patterns_fts, q, limit)

\* MaxwellTokenOptimized._search_reference
Token_search_reference(q, limit) ==
  IF FtsStatementRaises("reference", "reference_fts", q) THEN <<>>
  ELSE FtsSelect(reference, reference_fts, q, limit)

\* the dict MaxwellHybridKnowledgeBase.search returns
HybridReply(pattern_results, reference_results, t) ==
  IF pattern_results # <<>>
  THEN [status |-> "pattern_found",
        solution |-> <<"pattern_response", pattern_results[1].title>>,
        source |-> pattern_results[1].title, response_time |-> t,
        reasoning |-> "Found relevant solution in Maxwell patterns database",
        tags |-> JsonLoads(pattern_results[1].tags), knowledge_type |-> "pattern"]
  ELSE IF reference_results # <<>>
  THEN [status |-> "reference_found",
        solution |-> <<"reference_response", reference_results[1].title>>,
        source |-> reference_results[1].title, response_time |-> t,
        reasoning |-> <<"Found comprehensive reference in", reference_results[1].library>>,
        tags |-> JsonLoads(reference_results[1].tags),
        folder_path |-> reference_results[1].folder_path,
        library |-> reference_results[1].library, knowledge_type |-> "reference"]
  ELSE [status |-> "no_knowledge_found", solution |-> None, source |-> None,
        response_time |-> t,
        reasoning |-> "No relevant information found in Maxwell knowledge base",
        knowledge_type |-> "none"]

\* MaxwellHybridKnowledgeBase.search(query, limit)
Hybrid_search(q, limit, t) ==
  /\ hstats.total_queries < MaxHybridCalls
  /\ prev' = NoCall
  /\ IF Hybrid_search_patterns_raises(q)
     THEN /\ hstats' = [hstats EXCEPT !.total_queries = @ + 1]
          /\ ret' = OperationalError
          /\ call' = [op |-> "search", engine |-> "hybrid", query |-> q,
                      detail_level |-> None, sent |-> q, pattern_raised |-> TRUE,
                      pattern_results |-> 0,
                      reference_results |-> Len(Hybrid_search_reference(q, limit))]
     ELSE LET pattern_results == Hybrid_search_patterns(q, limit)
              reference_results == Hybrid_search_reference(q, limit)
          IN /\ hstats' = [hstats EXCEPT
                             !.total_queries = @ + 1,
                             !.pattern_hits = IF pattern_results # <<>> THEN @ + 1 ELSE @,
                             !.reference_hits =
                                IF pattern_results = <<>> /\ reference_results # <<>>
                                THEN @ + 1 ELSE @]
             /\ ret' = HybridReply(pattern_results, reference_results, t)
             /\ call' = [op |-> "search", engine |-> "hybrid", query |-> q,
                         detail_level |-> None, sent |-> q, pattern_raised |-> FALSE,
                         pattern_results |-> Len(pattern_results),
                         reference_results |-> Len(reference_results)]
  /\ UNCHANGED <<repo, storeVars, hashfn, cache, stats, imp, insertedAt, tick, asked>>

\* the three verbosity levels of the usage text, and one the usage text does not name
DocumentedLevels == {"summary", "details", "full"}

\* what MaxwellTokenOptimized.search returns: each stage returns only in the
\* branches its if/elif chain names
TokenReply(pattern_results, reference_results, detail_level, t) ==
  LET \* the dict of the pattern branch of MaxwellTokenOptimized.search
      TokenPatternReply(best_match) ==
        IF detail_level = "summary"
        THEN [status |-> "pattern_found", summary |-> <<"summary", best_match.title>>,
              source |-> best_match.title, response_time |-> t,
              reasoning |-> "Found pattern in first-line defense",
              tags |-> JsonLoads(best_match.tags), knowledge_type |-> "pattern",
              has_more_details |-> TRUE,
              detail_available |-> <<"key_points", "code_examples", "full_pattern">>]
        ELSE IF detail_level = "details"
        THEN [status |-> "pattern_found", summary |-> <<"summary", best_match.title>>,
              key_points |-> <<"key_points", best_match.title>>,
              source |-> best_match.title, response_time |-> t,
              reasoning |-> "Found pattern with key points",
              tags |-> JsonLoads(best_match.tags), knowledge_type |-> "pattern"]
        ELSE [status |-> "pattern_found", summary |-> <<"summary", best_match.title>>,
              key_points |-> <<"key_points", best_match.title>>,
              code_examples |-> <<"code_examples", best_match.title>>,
              solution |-> <<"detailed_solution", best_match.title>>,
              source |-> best_match.title, response_time |-> t,
              reasoning |-> "Complete pattern details provided",
              tags |-> JsonLoads(best_match.tags), knowledge_type |-> "pattern"]

      \* the dict of the reference branch of MaxwellTokenOptimized.search
      TokenReferenceReply(best_match) ==
        IF detail_level = "summary"
        THEN [status |-> "reference_found", summary |-> best_match.summary,
              source |-> best_match.title, response_time |-> t,
              reasoning |-> <<"Found reference documentation", best_match.library>>,
              tags |-> JsonLoads(best_match.tags), library |-> best_match.library,
              folder_path |-> best_match.folder_path, knowledge_type |-> "reference",
              has_more_details |-> TRUE,
              detail_available |-> <<"full_content", "section_highlights">>]
        ELSE [status |-> "reference_found", summary |-> best_match.summary,
              content_preview |-> <<"content_preview", best_match.title>>,
              source |-> best_match.title, response_time |-> t,
              reasoning |-> <<"Found reference documentation", best_match.library>>,
              tags |-> JsonLoads(best_match.tags), library |-> best_match.library,
              folder_path |-> best_match.folder_path, knowledge_type |-> "reference",
              has_more_details |-> TRUE, detail_available |-> <<"full_content">>]

      TokenNoReply ==
        [status |-> "no_knowledge_found", summary |-> None, source |-> None,
         response_time |-> t, reasoning |-> "No relevant information found in knowledge base",
         knowledge_type |-> "none", has_more_details |-> FALSE]
  IN  IF pattern_results # <<>> /\ detail_level \in {"summary", "details", "full"}
    THEN TokenPatternReply(pattern_results[1])
    ELSE IF reference_results # <<>> /\ detail_level \in {"summary", "full"}
    THEN TokenReferenceReply(reference_results[1])
    ELSE TokenNoReply

\* MaxwellTokenOptimized.search(query, detail_level=...)
Token_search(q, detail_level, t) ==
  LET pattern_results == Token_search_patterns(q, PatternLimit)
      reference_results == Token_search_reference(q, PatternLimit)
  IN /\ prev' = NoCall
     /\ ret' = TokenReply(pattern_results, reference_results, detail_level, t)
     /\ call' = [op |-> "search", engine |-> "token", query |-> q,
                 detail_level |-> detail_level, sent |-> q, pattern_raised |-> FALSE,
                 pattern_results |-> Len(pattern_results),
                 reference_results |-> Len(reference_results)]
     /\ UNCHANGED <<repo, storeVars, hashfn, cache, stats, hstats, imp, insertedAt,
                    tick, asked>>

-----------------------------------------------------------------------------
(* Pattern synthesis (synthesize-composable-patterns.py) and the librarian's *)
(* synthesize command                                                        *)

\* In a reference row read by the synthesizer the content is the markdown text,
\* a sequence of lines, each line a sequence of words.  A keyword test of the
\* source ('Store' in code_block) is taken on whole words.
\* the backquote character, and the fence that opens or closes a code block
Backquote == "backquote"
Fence == <<Backquote, Backquote, Backquote>>
StoreW == <<"S", "t", "o", "r", "e">>
StateW == <<"S", "t", "a", "t", "e">>
StructW == <<"s", "t", "r", "u", "c", "t">>
BreakingW == <<"b", "r", "e", "a", "k", "i", "n", "g">>
FixW == <<"f", "i", "x">>
TextW == <<"t", "e", "x", "t">>

TcaLibrary == "ComposableArchitecture"

TypeError == [raised |-> "TypeError"]
KeyError == [raised |-> "KeyError"]

\* rows of reference in rowid order, as cursor.fetchall() yields them
RECURSIVE RowsInOrder(_)
RowsInOrder(rows) ==
  IF rows = {} THEN <<>>
  ELSE LET first == CHOOSE r \in rows : \A o \in rows : r.rowid <= o.rowid
       IN <<first>> \o RowsInOrder(rows \ {first})

\* _extract_code_blocks: the lines between an opening and a closing fence
RECURSIVE CodeBlocksFrom(_, _, _, _)
CodeBlocksFrom(lines, i, in_code_block, current_block) ==
  IF i > Len(lines) THEN <<>>
  ELSE IF (Len(lines[i]) > 0 /\ Len(lines[i][1]) >= 3 /\ SubSeq(lines[i][1], 1, 3) = Fence)
  THEN (IF in_code_block THEN <<current_block>> ELSE <<>>)
         \o CodeBlocksFrom(lines, i + 1, ~in_code_block,
                           IF in_code_block THEN <<>> ELSE current_block)
  ELSE IF in_code_block
  THEN CodeBlocksFrom(lines, i + 1, TRUE, Append(current_block, lines[i]))
  ELSE CodeBlocksFrom(lines, i + 1, FALSE, current_block)

extract_code_blocks(content) == CodeBlocksFrom(content, 1, FALSE, <<>>)

TextWords(lines) == UNION {Range(lines[i]) : i \in 1..Len(lines)}

\* title.lower() of the titles in the model, as its words
TitleLower(title) ==
  CASE title = "State basics" -> {"state", "basics"}
    [] title = "Store" -> {"store"}
    [] title = "Migrating to 1.4" -> {"migrating", "to", "1.4"}
    [] title = "Notes" -> {"notes"}
    [] OTHER -> {}

\* f"tca-api-{hash(title) % 10000}" and its siblings
TcaPatternId(h, subtype, title) == <<subtype, h[title] % HashMod>>

create_tca_api_pattern(h, title, code_block, folder_path) ==
  [id |-> TcaPatternId(h, "tca-api", title), title |-> <<"TCA API", title>>,
   pattern_type |-> "tca_api_usage", folder |-> "ComposableArchitecture/API",
   tags |-> <<"tca", "api", "swift", "composable-architecture">>,
   content |-> TextWords(code_block), source_document |-> title,
   folder_path |-> folder_path]

create_conceptual_pattern(h, title, content, folder_path) ==
  [id |-> TcaPatternId(h, "tca-concept", title), title |-> <<"TCA Concept", title>>,
   pattern_type |-> "tca_concept",
   folder |-> IF "state" \in TitleLower(title)
              THEN "ComposableArchitecture/StateManagement"
              ELSE "ComposableArchitecture/TCAConcept",
   tags |-> <<"tca", "concept", "architecture", "composable-architecture">>,
   content |-> TextWords(content), source_document |-> title,
   folder_path |-> folder_path]

create_performance_pattern(h, title, content, folder_path) ==
  [id |-> TcaPatternId(h, "tca-performance", title),
   title |-> <<"TCA Performance", title>>,
   pattern_type |-> "tca_performance", folder |-> "ComposableArchitecture/Performance",
   tags |-> <<"tca", "performance", "optimization", "composable-architecture">>,
   content |-> TextWords(content), source_document |-> title,
   folder_path |-> folder_path]

create_tca_pattern(h, title, code_block, folder_path) ==
  [id |-> TcaPatternId(h, "tca-implementation", title),
   title |-> <<"TCA Implementation", title>>,
   pattern_type |-> "tca_implementation",
   folder |-> "ComposableArchitecture/Implementation",
   tags |-> <<"tca", "implementation", "swift", "composable-architecture">>,
   content |-> TextWords(code_block), source_document |-> title,
   folder_path |-> folder_path]

\* _extract_migration_patterns: one pattern when some line names a breaking
\* change or a fix
extract_migration_patterns(h, title, content, folder_path) ==
  LET breaking_changes == {i \in 1..Len(content) : BreakingW \in Range(content[i])}
      solutions == {i \in 1..Len(content) : /\ i \notin breaking_changes
                                            /\ FixW \in Range(content[i])}
  IN IF breaking_changes # {} \/ solutions # {}
     THEN << [id |-> TcaPatternId(h, "tca-migration", title),
              title |-> <<"TCA Migration", title>>,
              pattern_type |-> "tca_migration",
              folder |-> "ComposableArchitecture/Migration",
              tags |-> <<"tca", "migration", "breaking-changes",
                         "composable-architecture">>,
              content |-> TextWords(content), source_document |-> title,
              folder_path |-> folder_path] >>
     ELSE <<>>

\* the patterns of a list of code blocks: one per block that passes the test
RECURSIVE BlockPatterns(_, _, _, _, _, _)
BlockPatterns(h, title, blocks, i, folder_path, general) ==
  IF i > Len(blocks) THEN <<>>
  ELSE LET words == TextWords(blocks[i])
           picked == IF general
                     THEN StructW \in words /\ StateW \in words
                     ELSE words \cap {StoreW, StateW} # {}
           made == IF general
                   THEN create_tca_pattern(h, title, blocks[i], folder_path)
                   ELSE create_tca_api_pattern(h, title, blocks[i], folder_path)
       IN (IF picked THEN <<made>> ELSE <<>>)
            \o BlockPatterns(h, title, blocks, i + 1, folder_path, general)

extract_extension_patterns(h, title, content, folder_path) ==
  BlockPatterns(h, title, extract_code_blocks(content), 1, folder_path, FALSE)

extract_general_tca_patterns(h, title, content, folder_path) ==
  BlockPatterns(h, title, extract_code_blocks(content), 1, folder_path, TRUE)

extract_article_patterns(h, title, content, folder_path) ==
  (IF TitleLower(title) \cap {"state", "composition", "testing", "navigation"} # {}
   THEN <<create_conceptual_pattern(h, title, content, folder_path)>> ELSE <<>>)
  \o
  (IF \/ "performance" \in TitleLower(title)
       \/ <<"p", "e", "r", "f", "o", "r", "m", "a", "n", "c", "e">> \in TextWords(content)
   THEN <<create_performance_pattern(h, title, content, folder_path)>> ELSE <<>>)

\* the loop body of extract_patterns_from_composable_architecture for one row;
\* 'MigrationGuides' in folder_path raises TypeError on a NULL folder_path
DocumentRaises(doc) == doc.folder_path = None

DocumentPatterns(h, doc) ==
  IF doc.folder_path = "MigrationGuides"
  THEN extract_migration_patterns(h, doc.title, doc.content, doc.folder_path)
  ELSE IF doc.folder_path = "Extensions"
  THEN extract_extension_patterns(h, doc.title, doc.content, doc.folder_path)
  ELSE IF doc.folder_path = "Articles"
  THEN extract_article_patterns(h, doc.title, doc.content, doc.folder_path)
  ELSE extract_general_tca_patterns(h, doc.title, doc.content, doc.folder_path)

RECURSIVE ExtractFrom(_, _, _)
ExtractFrom(h, docs, i) ==
  IF i > Len(docs) THEN <<>>
  ELSE DocumentPatterns(h, docs[i]) \o ExtractFrom(h, docs, i + 1)

extract_patterns_raises ==
  \/ "reference" \notin tables
  \/ \E r \in reference : r.library = TcaLibrary /\ DocumentRaises(r)

extract_patterns_from_composable_architecture(h) ==
  ExtractFrom(h, RowsInOrder({r \in reference : r.library = TcaLibrary}), 1)

\* _format_pattern_content: the canonical document, as the words it holds
format_pattern_content(pattern) ==
  {<<"P", "r", "o", "b", "l", "e", "m">>, <<"S", "o", "l", "u", "t", "i", "o", "n">>}
    \cup pattern.content

\* save_synthesized_patterns: the patterns table has no key (it was created AS
\* SELECT), so INSERT OR REPLACE replaces nothing; each row is indexed at its rowid
RECURSIVE SavePatterns(_, _, _)
SavePatterns(db, pats, i) ==
  IF i > Len(pats) THEN db
  ELSE LET rid == NextRowid(db.patterns)
           content == format_pattern_content(pats[i])
           row == [rowid |-> rid, id |-> pats[i].id, title |-> pats[i].title,
                   content |-> content, folder |-> pats[i].folder,
                   folder_path |-> pats[i].folder_path,
                   doc_type |-> "synthesized_pattern", library |-> TcaLibrary,
                   tags |-> JsonDumps(pats[i].tags)]
       IN SavePatterns([patterns |-> db.patterns \cup {row},
                        patterns_fts |-> db.patterns_fts \cup Postings(rid, content)],
                       pats, i + 1)

save_synthesized_patterns_raises ==
  "patterns" \notin tables \/ "patterns_fts" \notin tables

\* main() of synthesize-composable-patterns.py
synthesize_composable_patterns ==
  LET extracted == IF extract_patterns_raises THEN <<>>
                   ELSE extract_patterns_from_composable_architecture(hashfn)
      saves == ~extract_patterns_raises /\ extracted # <<>>
      db == IF saves /\ ~save_synthesized_patterns_raises
            THEN SavePatterns([patterns |-> patterns, patterns_fts |-> patterns_fts],
                              extracted, 1)
            ELSE [patterns |-> patterns, patterns_fts |-> patterns_fts]
  IN /\ NextRowid(patterns) - 1 + Len(extracted) <= MaxPatternRows
     /\ patterns' = db.patterns
     /\ patterns_fts' = db.patterns_fts
     /\ ret' = IF "reference" \notin tables THEN OperationalError
               ELSE IF extract_patterns_raises THEN TypeError
               ELSE IF saves /\ save_synthesized_patterns_raises THEN OperationalError
               ELSE [returned |-> 0]
     /\ call' = [op |-> "synthesize", library |-> TcaLibrary,
                 docs |-> Cardinality({r \in reference : r.library = TcaLibrary}),
                 hashfn |-> hashfn,
                 extracted |-> extracted, ids |-> [i \in 1..Len(extracted) |-> extracted[i].id],
                 patterns_before |-> patterns, patterns_fts_before |-> patterns_fts]
     /\ prev' = IF call.op = "synthesize" /\ ~Raised(ret)
                THEN [op |-> "synthesize", ids |-> call.ids] ELSE NoCall
     /\ UNCHANGED <<repo, tables, knowledge, knowledge_fts, relations, reference, reference_fts,
                    hashfn, cache, stats, hstats, imp, insertedAt, tick, asked>>

\* PatternSynthesizer._library_exists
library_exists(library) ==
  "reference" \in tables /\ \E r \in reference : r.library = library

\* PatternSynthesizer.synthesize_patterns: an unknown library gets the two-key
\* error dict; for a known one the script written from the template is run in a
\* subprocess, where it fails on its import of maxwell_pattern_synthesis, a
\* module the repository does not have
PatternSynthesizer_synthesize_patterns(library) ==
  IF ~library_exists(library)
  THEN [success |-> FALSE, error |-> "not found in database"]
  ELSE [library_name |-> library, script_generated |-> TRUE,
        synthesis_completed |-> FALSE, patterns_created |-> 0, validation |-> None]

\* MaxwellLibrarian.synthesize_patterns reads synthesis_result['synthesis_completed']
MaxwellLibrarian_synthesize_patterns(library) ==
  LET synthesis_result == PatternSynthesizer_synthesize_patterns(library)
  IN /\ ret' = IF "synthesis_completed" \in DOMAIN synthesis_result
               THEN synthesis_result ELSE KeyError
     /\ call' = [op |-> "librarian_synthesize", library |-> library,
                 docs |-> Cardinality({r \in reference : r.library = library}),
                 hashfn |-> hashfn,
                 extracted |-> <<>>, ids |-> <<>>,
                 patterns_before |-> patterns, patterns_fts_before |-> patterns_fts]
     /\ prev' = NoCall
     /\ UNCHANGED <<repo, storeVars, hashfn, cache, stats, hstats, imp,
                    insertedAt, tick, asked>>

-----------------------------------------------------------------------------
(* DuplicateDetector (maxwell-librarian/tools/duplicate_detector.py) *)

\* The detector compares texts character by character: here a content is a
\* sequence of characters over the letters a, b, c, t, the blank and the newline.
Newline == "\n"

UnboundLocalError == [raised |-> "UnboundLocalError"]

\* str.split(): the maximal runs of characters that are no whitespace
RECURSIVE SplitFrom(_, _, _)
SplitFrom(text, i, cur) ==
  IF i > Len(text) THEN (IF cur = <<>> THEN <<>> ELSE <<cur>>)
  ELSE IF text[i] \notin {" ", Newline} THEN SplitFrom(text, i + 1, Append(cur, text[i]))
  ELSE (IF cur = <<>> THEN <<>> ELSE <<cur>>) \o SplitFrom(text, i + 1, <<>>)

Split(text) == SplitFrom(text, 1, <<>>)

RECURSIVE JoinWithBlank(_, _)
JoinWithBlank(words, i) ==
  IF i > Len(words) THEN <<>>
  ELSE (IF i > 1 THEN <<" ">> ELSE <<>>) \o words[i] \o JoinWithBlank(words, i + 1)

\* re.sub(r'\s+', ' ', content.strip())
normalize_whitespace(content) == JoinWithBlank(Split(content), 1)

\* pattern in text
Contains(text, pattern) ==
  \E i \in 1..(Len(text) - Len(pattern) + 1) :
     SubSeq(text, i, i + Len(pattern) - 1) = pattern

\* _extract_tags
\* of tech_tags, tca is the entry that can be spelled with the letters of the model
extract_tags(content) == {tag \in {"tca"} : Contains(content, <<"t", "c", "a">>)}

\* content[:500] + ("..." if len(content) > 500 else "")
content_preview(content) ==
  IF Len(content) > PreviewLimit
  THEN SubSeq(content, 1, PreviewLimit) \o <<".", ".", ".">>
  ELSE content

\* candidate files: what docs_root.rglob("*.md") finds, with the title that
\* _extract_title reads from the first heading
CandidateFile(relative_path, title, content) ==
  [relative_path |-> relative_path, title |-> title, content |-> content]

\* alpha.md and blanks.md differ only in blank lines and trailing blanks
CAlpha == CandidateFile("alpha.md", "Alpha",
                        <<"a", "b", " ", "t", "c", "a", Newline>>)

DirectoryExists(docs_path) == docs_path # "nowhere"

DirectoryFiles(docs_path) ==
  CASE docs_path = "cand" ->
         <<CAlpha,
           CandidateFile("blanks.md", "Alpha copy",
                         <<"a", "b", Newline, Newline, "t", "c", "a", " ", " ">>),
           CandidateFile("guide.md", "Install Guide 2.0", <<"b", "b", " ", "c">>)>>
    [] docs_path = "one" -> <<CAlpha>>
    [] docs_path = "docs" ->
         <<CandidateFile("a.md", "A", <<"a">>),
           CandidateFile("Articles/a.md", "AA", <<"a", " ", "b">>)>>
    [] docs_path = "versions" ->
         <<CandidateFile("upgrade.md", "Install Guide 1.10", <<"b", " ", "c">>),
           CandidateFile("same.md", "Install Guide 1.9", <<"c", " ", "c">>)>>
    [] OTHER -> <<>>

\* _get_document_files
get_document_files(docs_path) ==
  IF ~DirectoryExists(docs_path) THEN <<>>
  ELSE LET files == DirectoryFiles(docs_path)
       IN [i \in 1..Len(files) |->
             [path |-> <<docs_path, files[i].relative_path>>,
              relative_path |-> files[i].relative_path,
              size |-> Len(files[i].content),
              word_count |-> Len(Split(files[i].content)),
              title |-> files[i].title,
              tags |-> extract_tags(files[i].content),
              content |-> files[i].content,
              content_preview |-> content_preview(files[i].content)]]

\* _find_exact_duplicates.  existing_content maps (title, content) to the whole
\* four-column row; the inner loop unpacks that row into three names, which
\* raises ValueError on its first pass; the handler around the method prints
\* the error and the duplicates gathered so far are returned.
\* A dict keeps a key at the place of its first insertion, with the value of
\* its last one.
ExistingContent ==
  LET rows == RowsInOrder(reference)
      SameKey(i, j) == rows[i].title = rows[j].title /\ rows[i].content = rows[j].content
      firsts == SelectSeq([i \in 1..Len(rows) |-> i],
                          LAMBDA i : ~\E j \in 1..(i - 1) : SameKey(i, j))
      Last(i) == CHOOSE j \in i..Len(rows) :
                   SameKey(i, j) /\ ~\E k \in (j + 1)..Len(rows) : SameKey(i, k)
  IN [n \in 1..Len(firsts) |->
        LET r == rows[Last(firsts[n])]
        IN <<r.title, r.content, r.folder_path, r.library>>]

RECURSIVE ExactDuplicatesFrom(_, _)
ExactDuplicatesFrom(new_files, i) ==
  IF i > Len(new_files) \/ ExistingContent = <<>> THEN <<>>
  ELSE IF Len(ExistingContent[1]) # 3 THEN <<>>
  ELSE LET normalized_new == normalize_whitespace(new_files[i].content)
           hits == SelectSeq(ExistingContent,
                             LAMBDA row : normalize_whitespace(row[2]) = normalized_new)
       IN [n \in 1..Len(hits) |->
             [new_file |-> new_files[i].relative_path,
              existing_title |-> hits[n][1], existing_library |-> hits[n][3],
              existing_path |-> hits[n][2], match_type |-> "exact_content"]]
          \o ExactDuplicatesFrom(new_files, i + 1)

find_exact_duplicates(new_files) ==
  IF "reference" \notin tables THEN <<>> ELSE ExactDuplicatesFrom(new_files, 1)

\* a score is kept as the exact fraction num / den
Fraction(num, den) == [num |-> num, den |-> den]

GreaterThan(score, num, den) == score.num * den > num * score.den

RECURSIVE SumOver(_, _)
SumOver(counts, i) == IF i > Len(counts) THEN 0 ELSE counts[i] + SumOver(counts, i + 1)

\* _calculate_overlap_score: 0.4 of the share of the new tags the library has,
\* plus 0.6 of the mean share of the new words each sample has
calculate_overlap_score(content, tags, existing_lib) ==
  LET \* SELECT content FROM reference WHERE library = ? LIMIT 5
      rows == RowsInOrder({r \in reference : r.library = existing_lib})
      existing_samples ==
        [i \in 1..(IF Len(rows) < SampleLimit THEN Len(rows) ELSE SampleLimit) |->
           rows[i].content]
      existing_tags == UNION {extract_tags(existing_samples[i]) :
                                i \in 1..Len(existing_samples)}
      tag_overlap == Cardinality(tags \cap existing_tags)
      ntags == Cardinality(tags)
      words == Split(content)
      content_overlap ==
        SumOver([i \in 1..Len(existing_samples) |->
                   Cardinality(Range(words) \cap Range(Split(existing_samples[i])))], 1)
      t == IF ntags = 0 THEN 1 ELSE ntags
      w == IF Len(words) = 0 THEN 1 ELSE Len(words)
      s == Len(existing_samples)
  IN Fraction((IF ntags > 0 THEN 4 * tag_overlap * w * s ELSE 0)
                + (IF Len(words) > 0 THEN 6 * content_overlap * t ELSE 0),
              10 * t * w * s)

\* _find_common_tags
find_common_tags(new_tags, existing_lib) ==
  new_tags \cap UNION {Range(JsonLoads(r.tags)) :
                         r \in {x \in reference : x.library = existing_lib}}

RECURSIVE LibraryOverlaps(_, _, _)
LibraryOverlaps(new_file, libs, i) ==
  IF i > Len(libs) THEN <<>>
  ELSE LET overlap_score == calculate_overlap_score(new_file.content_preview,
                                                    new_file.tags, libs[i])
       IN (IF GreaterThan(overlap_score, 3, 10)
           THEN << [new_file |-> new_file.relative_path, existing_library |-> libs[i],
                    overlap_score |-> overlap_score,
                    common_tags |-> find_common_tags(new_file.tags, libs[i])] >>
           ELSE <<>>)
          \o LibraryOverlaps(new_file, libs, i + 1)

RECURSIVE TopicOverlapsFrom(_, _, _)
TopicOverlapsFrom(new_files, libs, i) ==
  IF i > Len(new_files) THEN <<>>
  ELSE LibraryOverlaps(new_files[i], libs, 1) \o TopicOverlapsFrom(new_files, libs, i + 1)

\* the values of a sequence, each at the place of its first appearance
RECURSIVE Distinct(_, _)
Distinct(values, i) ==
  IF i > Len(values) THEN <<>>
  ELSE (IF \E j \in 1..(i - 1) : values[j] = values[i] THEN <<>> ELSE <<values[i]>>)
       \o Distinct(values, i + 1)

\* _find_topic_overlaps
find_topic_overlaps(new_files, library_name) ==
  IF "reference" \notin tables THEN <<>>
  ELSE LET rows == RowsInOrder(reference)
           \* SELECT DISTINCT library FROM reference
           libraries == Distinct([i \in 1..Len(rows) |-> rows[i].library], 1)
       IN TopicOverlapsFrom(new_files, libraries, 1)

\* _find_library_conflicts
find_library_conflicts(new_files, library_name) == <<>>

\* re.search(r'\b(\d+\.\d+)\b', title) on the titles of the model: the token's
\* digits before the point, its digits after the point and how many these are
\* (none when the title has no token)
TitleVersion(title) ==
  CASE title = "Install Guide 1.9" -> [major |-> 1, minor |-> 9, digits |-> 1]
    [] title = "Install Guide 1.10" -> [major |-> 1, minor |-> 10, digits |-> 2]
    [] title = "Install Guide 2.0" -> [major |-> 2, minor |-> 0, digits |-> 1]
    [] title = "Guide 3.0" -> [major |-> 3, minor |-> 0, digits |-> 1]
    [] OTHER -> [major |-> 0, minor |-> 0, digits |-> 0]

\* float(version), in hundredths: the digits after the point are a decimal
\* fraction, so 1.10 reads as 1.1
VersionFloat(version) ==
  100 * version.major + (IF version.digits = 1 THEN 10 ELSE 1) * version.minor

\* set(title.lower().replace('-', ' ').split())
TitleWordSet(title) ==
  CASE title = "Install Guide 1.9" -> {"install", "guide", "1.9"}
    [] title = "Install Guide 1.10" -> {"install", "guide", "1.10"}
    [] title = "Install Guide 2.0" -> {"install", "guide", "2.0"}
    [] title = "Guide 3.0" -> {"guide", "3.0"}
    [] title = "Alpha" -> {"alpha"}
    [] title = "Alpha copy" -> {"alpha", "copy"}
    [] OTHER -> {title}

\* _is_same_content_type
is_same_content_type(title1, title2) ==
  LET words1 == TitleWordSet(title1)
      words2 == TitleWordSet(title2)
      common == Cardinality(words1 \cap words2)
  IN \/ common >= 3
     \/ /\ common > 0
        /\ 2 * common > (IF Cardinality(words1) < Cardinality(words2)
                         THEN Cardinality(words1) ELSE Cardinality(words2))

RECURSIVE VersionConflictsFrom(_, _, _)
VersionConflictsFrom(new_files, existing_titles, i) ==
  IF i > Len(new_files) THEN <<>>
  ELSE LET new_version == TitleVersion(new_files[i].title)
           older == SelectSeq(existing_titles,
                              LAMBDA t : /\ new_version.digits > 0
                                         /\ is_same_content_type(new_files[i].title, t)
                                         /\ VersionFloat(new_version)
                                              > VersionFloat(TitleVersion(t)))
       IN [n \in 1..Len(older) |->
             [new_file |-> new_files[i].relative_path, existing_title |-> older[n],
              old_version |-> TitleVersion(older[n]), new_version |-> new_version,
              conflict_type |-> "version_upgrade"]]
          \o VersionConflictsFrom(new_files, existing_titles, i + 1)

\* _find_version_conflicts
find_version_conflicts(new_files, library_name) ==
  IF "reference" \notin tables THEN <<>>
  ELSE LET \* library = ? OR library LIKE '%' || ? || '%', on the library names of
           \* the model
           LibraryLike(library) ==
             library = library_name \/ (library = "LibKit" /\ library_name = "Lib")
           rows == RowsInOrder({r \in reference :
                                  LibraryLike(r.library) /\ TitleVersion(r.title).digits > 0})
           existing_versions == [i \in 1..Len(rows) |-> rows[i].title]
       IN VersionConflictsFrom(new_files, Distinct(existing_versions, 1), 1)

\* _calculate_unique_content counting one exclusion per finding instead of one
\* per file
calculate_unique_content_per_finding(new_files, analysis) ==
  LET high == {j \in 1..Len(analysis.topic_overlaps) :
                 GreaterThan(analysis.topic_overlaps[j].overlap_score, 7, 10)}
      excluded_files ==
        {analysis.exact_duplicates[i].new_file : i \in 1..Len(analysis.exact_duplicates)}
        \cup {analysis.topic_overlaps[i].new_file : i \in high}
      unique_files == {i \in 1..Len(new_files) :
                         new_files[i].relative_path \notin excluded_files}
  IN [total_files |-> Len(new_files),
      excluded_files |-> Len(analysis.exact_duplicates) + Cardinality(high),
      unique_files |-> Cardinality(unique_files),
      uniqueness_percentage |->
        IF Len(new_files) # 0
        THEN Fraction(Cardinality(unique_files) * 100, Len(new_files))
        ELSE Fraction(0, 1)]

\* _calculate_unique_content
calculate_unique_content(new_files, analysis) ==
  LET excluded_files ==
        {analysis.exact_duplicates[i].new_file : i \in 1..Len(analysis.exact_duplicates)}
        \cup {analysis.topic_overlaps[i].new_file :
                i \in {j \in 1..Len(analysis.topic_overlaps) :
                         GreaterThan(analysis.topic_overlaps[j].overlap_score, 7, 10)}}
      unique_files == {i \in 1..Len(new_files) :
                         new_files[i].relative_path \notin excluded_files}
  IN [total_files |-> Len(new_files),
      excluded_files |-> Cardinality(excluded_files),
      unique_files |-> Cardinality(unique_files),
      uniqueness_percentage |->
        IF Len(new_files) # 0
        THEN Fraction(Cardinality(unique_files) * 100, Len(new_files))
        ELSE Fraction(0, 1)]

\* _generate_recommendations, by the findings it counts
generate_recommendations(analysis) ==
  [exact_duplicates |-> Len(analysis.exact_duplicates),
   topic_overlaps |-> Len(analysis.topic_overlaps),
   version_conflicts |-> Len(analysis.version_conflicts)]

\* the four passes of analyze_content over the files found under docs_path
AnalysisPasses(docs_path, library_name) ==
  LET new_files == get_document_files(docs_path)
  IN [new_files |-> new_files,
      passes |-> [total_files |-> Len(new_files),
                  exact_duplicates |-> find_exact_duplicates(new_files),
                  topic_overlaps |-> find_topic_overlaps(new_files, library_name),
                  library_conflicts |-> find_library_conflicts(new_files, library_name),
                  version_conflicts |-> find_version_conflicts(new_files, library_name)]]

\* what analyze_content returns or raises after its passes.  The dict display
\* that builds the report passes the local name analysis to
\* _calculate_unique_content while that name is still unbound.
Analysis(docs_path, library_name) ==
  LET AnalysisUnbound == TRUE
      Report(new_files, passes) ==
        IF AnalysisUnbound THEN UnboundLocalError
        ELSE [total_files |-> passes.total_files,
              exact_duplicates |-> passes.exact_duplicates,
              topic_overlaps |-> passes.topic_overlaps,
              library_conflicts |-> passes.library_conflicts,
              version_conflicts |-> passes.version_conflicts,
              new_unique_content |-> calculate_unique_content(new_files, passes),
              recommendations |-> generate_recommendations(passes),
              library_name |-> library_name]
      ReportOf(analysis) == Report(analysis.new_files, analysis.passes)
  IN ReportOf(AnalysisPasses(docs_path, library_name))

\* analyze_content(docs_path, library_name)
analyze_content(docs_path, library_name) ==
  LET analysis == AnalysisPasses(docs_path, library_name)
  IN /\ call' = [op |-> "analyze_content", docs_path |-> docs_path,
                 library_name |-> library_name, new_files |-> analysis.new_files,
                 passes |-> analysis.passes]
     /\ ret' = Analysis(docs_path, library_name)
     /\ prev' = NoCall
     /\ UNCHANGED <<repo, storeVars, hashfn, cache, stats, hstats, imp,
                    insertedAt, tick, asked>>

-----------------------------------------------------------------------------
(* The import workflow: ImportManager (import_manager.py) and MaxwellLibrarian *)
(* (maxwell-librarian/skill.py)                                                *)

\* ImportManager.import_documentation(docs_path, library_name,
\* skip_duplicates_check): the dict returned or the exception raised, the
\* steps started, in order, and the reference store left behind.
\* choice is the operator's answer to the prompt of _get_user_decision;
\* installed tells whether migrate-database.py is found under
\* maxwell_tools_path; h is the str hash function of the subprocess that
\* _execute_import starts.
ImportManager_import(docs_path, library_name, skip_duplicates_check, choice, installed, h) ==
  LET db == [reference |-> reference, reference_fts |-> reference_fts]
      files == IF docs_path = "docs" THEN DocsTree ELSE <<>>
      store == ImportReferenceFiles(db, files, 1, library_name, h)
      before == IF skip_duplicates_check THEN <<>> ELSE <<"analysis", "decision">>
      \* _get_user_decision: below 30 anything but y, s, e cancels; from 30 on
      \* only n does
      Action(uniqueness) ==
        IF choice = "n" THEN "cancel"
        ELSE IF choice = "s" THEN "selective"
        ELSE IF choice = "e" THEN "edit"
        ELSE IF choice = "y" THEN "import_all"
        ELSE IF uniqueness.num < 30 * uniqueness.den THEN "cancel"
        ELSE "import_all"
      \* _execute_import runs migrate-database.py --import-docs in a subprocess;
      \* status is 'success' when it exits with 0.  After a successful import,
      \* line 69 reads the local name decision, bound only on the analysis
      \* path; with a decision, the methods _synthesize_patterns and
      \* _validate_import it calls are not defined by the class.
      Imported(action) ==
        IF ~installed
        THEN [ret |-> [status |-> "error", message |-> "Import failed",
                       library |-> library_name],
              steps |-> Append(before, "import"),
              reference |-> reference, reference_fts |-> reference_fts]
        ELSE [ret |-> IF skip_duplicates_check THEN UnboundLocalError
                      ELSE [raised |-> "AttributeError"],
              steps |-> IF skip_duplicates_check THEN <<"import">>
                        ELSE before \o <<"import",
                                         IF action = "edit" THEN "validation"
                                         ELSE "synthesis">>,
              reference |-> store.reference, reference_fts |-> store.reference_fts]
      Returned(result, steps) ==
        [ret |-> result, steps |-> steps, reference |-> reference,
         reference_fts |-> reference_fts]
      Workflow(duplicate_analysis) ==
        IF ~DirectoryExists(docs_path)
        THEN Returned([status |-> "error", message |-> "Documentation path not found",
                       library |-> library_name], <<>>)
        ELSE IF skip_duplicates_check THEN Imported(None)
        ELSE IF Raised(duplicate_analysis)
        THEN Returned(duplicate_analysis, <<"analysis">>)
        ELSE IF Action(duplicate_analysis.new_unique_content.uniqueness_percentage)
                  = "cancel"
        THEN Returned([status |-> "cancelled", message |-> "Import cancelled by user",
                       library |-> library_name], <<"analysis", "decision">>)
        ELSE Imported(Action(duplicate_analysis.new_unique_content.uniqueness_percentage))
  IN Workflow(Analysis(docs_path, library_name))

\* ImportManager.import_documentation as an operation on the store
ImportManager_import_documentation(docs_path, library_name, skip_duplicates_check, choice, installed, h) ==
  \E outcome \in {ImportManager_import(docs_path, library_name, skip_duplicates_check,
                                       choice, installed, h)} :
     /\ NextRowid(reference) - 1 + Len(DocsTree) <= MaxRowid
     /\ reference' = outcome.reference
     /\ reference_fts' = outcome.reference_fts
     /\ call' = [op |-> "manager_import", docs_path |-> docs_path,
                 library_name |-> library_name,
                 skip_duplicates_check |-> skip_duplicates_check,
                 answer |-> choice, steps |-> outcome.steps]
     /\ ret' = outcome.ret
     /\ prev' = NoCall
     /\ UNCHANGED <<repo, tables, knowledge, knowledge_fts, relations, patterns,
                    patterns_fts, hashfn, cache, stats, hstats, imp, insertedAt, tick,
                    asked>>

\* MaxwellLibrarian.import_documentation(docs_path, library_name,
\* skip_duplicates_check); answer is the operator's reply to
\* _get_user_confirmation, choice the reply to the import manager's own prompt
MaxwellLibrarian_import_documentation(docs_path, library_name, skip_duplicates_check, answer, choice, installed, h) ==
  LET synthesis_result == PatternSynthesizer_synthesize_patterns(library_name)
      \* QualityValidator.validate_import: a two-key error dict for a library
      \* without reference rows, else the report with its overall_score
      validation_result ==
        IF ~library_exists(library_name)
        THEN [success |-> FALSE, error |-> "not found", validation_score |-> 0]
        ELSE [library_name |-> library_name, overall_score |-> 1, status |-> "passed"]
      confirmation == answer \in {"y", "yes"}
      first == IF skip_duplicates_check THEN <<>> ELSE <<"analysis">>
      Stopped(result, steps) ==
        [ret |-> result, steps |-> steps, reference |-> reference,
         reference_fts |-> reference_fts]
      \* manager is what import_manager.import_documentation does when called
      Workflow(duplicate_analysis, manager) ==
        LET import_result == manager.ret
            Imported(result, steps) ==
              [ret |-> result, steps |-> steps, reference |-> manager.reference,
               reference_fts |-> manager.reference_fts]
        IN
        IF ~skip_duplicates_check /\ Raised(duplicate_analysis)
        THEN Stopped(duplicate_analysis, first)
        ELSE IF /\ ~skip_duplicates_check
                /\ duplicate_analysis.new_unique_content.uniqueness_percentage.num
                     < 30 * duplicate_analysis.new_unique_content.uniqueness_percentage.den
                /\ ~confirmation
        THEN Stopped([success |-> FALSE, reason |-> "cancelled_by_user"],
                     Append(first, "confirmation"))
        ELSE IF Raised(import_result)
        THEN Imported(import_result, Append(first, "import"))
        ELSE IF "success" \notin DOMAIN import_result
        THEN Imported(KeyError, Append(first, "import"))
        ELSE IF ~import_result.success
        THEN Imported(import_result, Append(first, "import"))
        ELSE IF "synthesis_completed" \notin DOMAIN synthesis_result
        THEN Imported(KeyError, first \o <<"import", "synthesis", "validation">>)
        ELSE IF "overall_score" \notin DOMAIN validation_result
        THEN Imported(KeyError, first \o <<"import", "synthesis", "validation">>)
        ELSE Imported([success |-> TRUE, library_name |-> library_name,
                       docs_path |-> docs_path],
                      first \o <<"import", "synthesis", "validation">>)
  IN \E outcome \in {Workflow(Analysis(docs_path, library_name),
                               ImportManager_import(docs_path, library_name,
                                                    skip_duplicates_check, choice,
                                                    installed, h))} :
     /\ NextRowid(reference) - 1 + Len(DocsTree) <= MaxRowid
     /\ reference' = outcome.reference
     /\ reference_fts' = outcome.reference_fts
     /\ call' = [op |-> "librarian_import", docs_path |-> docs_path,
                 library_name |-> library_name,
                 skip_duplicates_check |-> skip_duplicates_check,
                 answer |-> answer, steps |-> outcome.steps]
     /\ ret' = outcome.ret
     /\ prev' = NoCall
     /\ UNCHANGED <<repo, tables, knowledge, knowledge_fts, relations, patterns,
                    patterns_fts, hashfn, cache, stats, hstats, imp, insertedAt, tick,
                    asked>>

-----------------------------------------------------------------------------
(* Specifications *)

\* the query texts given to the search front ends
Queries == {Wa, Wb, <<"@", "a">>, <<"a", ".", "b">>}

\* a str hash function of one interpreter process
SomeHash == [p \in RelPaths |-> IF p = "a.md" THEN 3 ELSE 7]

IdleObjects ==
  /\ cache = <<>>
  /\ stats = ZeroStats
  /\ hstats = ZeroHybridStats
  /\ call = NoCall
  /\ ret = NoCall
  /\ prev = NoCall
  /\ imp = NoImport
  /\ insertedAt = [k \in {} |-> 0]
  /\ tick = 0
  /\ asked = 0

EmptyStore ==
  /\ knowledge = {}
  /\ knowledge_fts = {}
  /\ relations = {}
  /\ patterns = {}
  /\ patterns_fts = {}
  /\ reference = {}
  /\ reference_fts = {}

\* maxwell.db as a process finds it: no table yet, or the reference collection
\* and its index laid out by an earlier schema (the shipped CREATE TABLE
\* reference statement cannot create it)
Init ==
  /\ repo = {F1, F2}
  /\ tables \in {{}, {"reference", "reference_fts"}}
  /\ EmptyStore
  /\ hashfn = SomeHash
  /\ IdleObjects

Next ==
  \/ \E order \in Orders(repo) : MaxwellKnowledgeBase(order)
  \/ migrate_to_hybrid_schema
  \/ \E docs_path \in DocsPaths : import_reference_documentation(docs_path, "Lib")
  \/ \E q \in Queries, t \in Times : Hybrid_search(q, DefaultLimit, t)
  \/ \E q \in Queries, d \in DocumentedLevels \cup {"verbose"}, t \in Times :
        Token_search(q, d, t)

Spec == Init /\ [][Next]_vars

\* reference imports by successive interpreter processes
InitImport ==
  /\ repo = {}
  /\ tables = {"reference", "reference_fts"}
  /\ EmptyStore
  /\ hashfn \in HashFns
  /\ IdleObjects

NextImport ==
  \/ \E h \in HashFns : NewProcess(h)
  \/ \E docs_path \in DocsPaths, library \in {"Lib", "Other"} :
        import_reference_documentation(docs_path, library)

SpecImport == InitImport /\ [][NextImport]_vars

\* one MaxwellKnowledgeBase object, from its construction on
InitKB ==
  /\ repo \in SUBSET KFiles
  /\ tables = KnowledgeTables
  /\ \E order \in Orders(repo) :
        LET db == ImportKnowledgeContent(EmptyKnowledge, order, 1)
        IN KnowledgeIs(db)
  /\ patterns = {}
  /\ patterns_fts = {}
  /\ reference = {}
  /\ reference_fts = {}
  /\ hashfn = SomeHash
  /\ IdleObjects

NextKB ==
  \/ \E q \in {Wa, <<"@", "a">>, <<"@">>}, t \in Times :
        /\ stats.total_queries < MaxCalls
        /\ solve_developer_problem(q, t)
        /\ UNCHANGED asked
  \/ \E order \in Orders(repo) : update_knowledge_base(order)
  \/ \E f \in KFiles : EditRepository(f)

SpecKB == InitKB /\ [][NextKB]_vars

\* one MaxwellKnowledgeBase object asked ever new queries: query n is Word(n);
\* the next query is the first unasked one, one of the two asked last, or one
\* of those around the oldest cache entry
InitCache ==
  /\ repo = {F1, F2}
  /\ tables = KnowledgeTables
  /\ LET db == ImportKnowledgeContent(EmptyKnowledge,
                                      <<F1, F2>>, 1)
     IN KnowledgeIs(db)
  /\ patterns = {}
  /\ patterns_fts = {}
  /\ reference = {}
  /\ reference_fts = {}
  /\ hashfn = SomeHash
  /\ IdleObjects

NextCache ==
  \E n \in ({asked + 1, asked, asked - 1}
              \cup {asked - cache_limit - 1, asked - cache_limit, asked - cache_limit + 1})
             \cap (1..MaxWord) :
     /\ stats.total_queries < (MaxWord + 6)
     /\ solve_developer_problem(Word(n), 1)
     /\ asked' = IF n > asked THEN n ELSE asked

SpecCache == InitCache /\ [][NextCache]_vars

\* reference rows of the ComposableArchitecture library, in the shape
\* import_reference_documentation writes them, and one row whose folder_path
\* column is NULL (the column is declared without NOT NULL)
SynthRow(rid, stem, title, folder_path, content) ==
  [rowid |-> rid, id |-> <<TcaLibrary, stem, rid>>, title |-> title,
   content |-> content, folder_path |-> folder_path, library |-> TcaLibrary,
   file_path |-> stem, summary |-> title,
   tags |-> JsonDumps(<<TcaLibrary, classify_document_type(folder_path)>>)]

T1 == SynthRow(1, "state", "State basics", "Articles", << <<TextW>> >>)
T2 == SynthRow(2, "store", "Store", "Extensions",
               << <<Fence>>, <<StoreW>>, <<Fence>>, <<TextW>>,
                  <<Fence>>, <<StructW, StateW>>, <<Fence>> >>)
T3 == SynthRow(3, "migrating", "Migrating to 1.4", "MigrationGuides",
               << <<BreakingW>>, <<FixW>> >>)
T4 == SynthRow(4, "notes", "Notes", "root", << <<TextW>> >>)

\* the titles some _create_*_pattern hashes, with two of the values a title's
\* hash takes in different processes
SynthHashFns == [{T1.title, T2.title, T3.title} -> {3, 7}]

\* a migrated-to-be store: the knowledge base built from one file, the reference
\* collection imported, patterns not yet created
InitSynth ==
  /\ repo = {F1}
  /\ tables = KnowledgeTables \cup {"reference", "reference_fts"}
  /\ LET db == LoadOrImportKnowledge(EmptyKnowledge, <<F1>>)
     IN KnowledgeIs(db)
  /\ patterns = {}
  /\ patterns_fts = {}
  /\ reference \in {{}, {T4}, {T1, T2, T3, T4},
                     {T1, SynthRow(2, "orphan", "Orphan", None, << <<TextW>> >>), T3}}
  /\ reference_fts = UNION {Postings(r.rowid, TextWords(r.content)) : r \in reference}
  /\ hashfn \in SynthHashFns
  /\ IdleObjects

NextSynth ==
  \/ \E h \in SynthHashFns : NewProcess(h)
  \/ migrate_to_hybrid_schema
  \/ synthesize_composable_patterns
  \/ \E library \in {TcaLibrary, "SQLiteData"} : MaxwellLibrarian_synthesize_patterns(library)

SpecSynth == InitSynth /\ [][NextSynth]_vars

\* Duplicate analysis: a migrated store holding any of four reference rows, or
\* a store without the reference table, analysed from the five directories; the
\* import may be pointed at the missing directory.
DetectRow(rid, title, library, content) ==
  [rowid |-> rid, id |-> <<library, title, rid>>, title |-> title,
   content |-> content, folder_path |-> "root", library |-> library,
   file_path |-> title, summary |-> title,
   tags |-> JsonDumps(<<library, "documentation">>)]

\* rows 1 and 4 are alpha.md up to whitespace, under another title
InitDetect ==
  /\ repo = {F1}
  /\ LET db == LoadOrImportKnowledge(EmptyKnowledge, <<F1>>)
     IN KnowledgeIs(db)
  /\ patterns = {}
  /\ patterns_fts = {}
  /\ \/ /\ tables = KnowledgeTables \cup {"reference", "reference_fts"}
        /\ reference \in SUBSET {
             DetectRow(1, "Alpha notes", "Lib", <<"a", "b", Newline, "t", "c", "a">>),
             DetectRow(2, "Install Guide 1.9", "Lib", <<"b", "b", " ", "c", " ", "a">>),
             DetectRow(3, "Guide 3.0", "LibKit", <<"a">>),
             DetectRow(4, "Alpha notes", "Other", <<"a", "b", Newline, "t", "c", "a">>)}
     \/ /\ tables = KnowledgeTables
        /\ reference = {}
  /\ reference_fts = UNION {Postings(r.rowid, Range(Split(r.content))) : r \in reference}
  /\ hashfn = SomeHash
  /\ IdleObjects

NextDetect ==
  \/ \E docs_path \in {"nowhere", "empty", "one", "cand", "versions"},
        library_name \in {"Lib", "New"} :
        analyze_content(docs_path, library_name)
  \/ \E library \in {"Lib", "New"} : import_reference_documentation("nowhere", library)

SpecDetect == InitDetect /\ [][NextDetect]_vars

\* _calculate_unique_content on its own: the inputs are a batch of at most
\* MaxFiles files and findings lists of at most MaxFindings entries about them.
UniquePaths == <<"alpha.md", "blanks.md", "guide.md", "extra.md">>

SeqsUpTo(S, n) == UNION {[1..k -> S] : k \in 0..n}

InitUnique ==
  /\ repo = {}
  /\ tables = {}
  /\ EmptyStore
  /\ hashfn = SomeHash
  /\ cache = <<>>
  /\ stats = ZeroStats
  /\ hstats = ZeroHybridStats
  /\ \E n \in 0..MaxFiles :
       \E e \in SeqsUpTo([new_file : {UniquePaths[i] : i \in 1..n},
                           existing_title : {"Alpha notes", "Guide 3.0"},
                           match_type : {"exact_content"}], MaxFindings),
          o \in SeqsUpTo([new_file : {UniquePaths[i] : i \in 1..n}, existing_library : {"Lib"},
                           overlap_score : {Fraction(7, 10), Fraction(9, 10)}],
                          MaxFindings) :
          call = [op |-> "inputs",
                  new_files |-> [i \in 1..n |-> [relative_path |-> UniquePaths[i]]],
                  analysis |-> [exact_duplicates |-> e, topic_overlaps |-> o]]
  /\ ret = NoCall
  /\ prev = NoCall
  /\ imp = NoImport
  /\ insertedAt = [k \in {} |-> 0]
  /\ tick = 0
  /\ asked = 0

DuplicateDetector_calculate_unique_content ==
  /\ call.op = "inputs"
  /\ ret' = calculate_unique_content(call.new_files, call.analysis)
  /\ call' = [call EXCEPT !.op = "calculate_unique_content"]
  /\ UNCHANGED <<repo, storeVars, hashfn, cache, stats, hstats, prev, imp,
                 insertedAt, tick, asked>>

SpecUnique == InitUnique /\ [][DuplicateDetector_calculate_unique_content]_vars

-----------------------------------------------------------------------------
(* Properties *)

\* C1: whenever the pattern search and the reference search of a query both
\* return at least one result, search() returns status 'pattern_found', in the
\* hybrid search and in the token-optimized search, whatever detail_level is
C1_PatternPrecedence ==
  (call.op = "search" /\ call.pattern_results > 0 /\ call.reference_results > 0)
    => (~Raised(ret) /\ ret.status = "pattern_found")

\* C2: a search follows START -> PATTERN_SEARCH -> (PATTERN_FOUND |
\* REFERENCE_SEARCH) -> (REFERENCE_FOUND | NO_KNOWLEDGE_FOUND): for one of the
\* documented detail levels, a pattern miss with a reference hit gives
\* 'reference_found', and 'no_knowledge_found' is returned only when both miss
C2_SearchStateMachine ==
  (/\ call.op = "search"
   /\ ~call.pattern_raised
   /\ call.detail_level \in DocumentedLevels \cup {None})
    => /\ (call.pattern_results > 0 => ret.status = "pattern_found")
       /\ (call.pattern_results = 0 /\ call.reference_results > 0
             => ret.status = "reference_found")
       /\ (ret.status = "no_knowledge_found"
             => call.pattern_results = 0 /\ call.reference_results = 0)

\* C3: on one store and one query MaxwellTokenOptimized.search returns the
\* same status and the same source for 'summary', 'details' and 'full'
C3_DetailLevelKeepsOutcome ==
  (/\ call.op = "search"
   /\ call.engine = "token"
   /\ call.detail_level \in DocumentedLevels)
    => \A d \in DocumentedLevels :
         LET other == TokenReply(Token_search_patterns(call.query, PatternLimit),
                                 Token_search_reference(call.query, PatternLimit),
                                 d, ret.response_time)
         IN other.status = ret.status /\ other.source = ret.source

\* C4: a search of a store into which no document was imported (tables empty
\* or not yet created) returns 'no_knowledge_found' and raises nothing
C4_EmptyStoreNoKnowledge ==
  (/\ call.op = "search"
   /\ Fts5Accepts(call.query)
   /\ knowledge = {} /\ patterns = {} /\ reference = {}
   /\ knowledge_fts = {} /\ patterns_fts = {} /\ reference_fts = {})
    => (~Raised(ret) /\ ret.status = "no_knowledge_found")

\* C5: with the pattern index table missing, the pattern stage yields an empty
\* result instead of an error, so a query the reference index matches ends in
\* 'reference_found'
C5_MissingPatternIndexFallsThrough ==
  (/\ call.op = "search"
   /\ "patterns_fts" \notin tables
   /\ call.reference_results > 0
   /\ call.detail_level \in {None, "summary", "full"})
    => (~call.pattern_raised /\ ~Raised(ret) /\ ret.status = "reference_found")

\* C6: a query holding '@', ':', '(', ')' or '.' reaches the index with each of
\* them replaced by a blank, in every search entry point, and the search
\* raises nothing
C6_QuerySanitized ==
  (/\ call.op \in {"search", "solve"}
   /\ (\E i \in 1..Len(call.query) : call.query[i] \in SanitizedChars)
   /\ call.sent # None)
    => (call.sent = clean_query(call.query) /\ ~Raised(ret))

\* C7: two solve_developer_problem calls in a row with the same query text and
\* no write to the store between them return the same status, source and solution
C7_RepeatedQuerySameAnswer ==
  (call.op = "solve" /\ prev.op = "solve" /\ prev.query = call.query)
    => /\ Raised(ret) = Raised(prev.ret)
       /\ ~Raised(ret) => /\ ret.status = prev.ret.status
                          /\ ret.source = prev.ret.source
                          /\ ret.solution = prev.ret.solution

C7_Witness ==
  /\ call.op = "solve" /\ prev.op = "solve" /\ prev.query = call.query
  /\ call.cache_hit
  /\ ~prev.cache_hit
  /\ ret.status = "knowledge_found"

\* C8: the cache never holds more than cache_limit entries, an insertion evicts
\* only at capacity, and the entry it evicts is the one inserted earliest
C8_CacheBoundedFifo ==
  /\ Len(cache) <= cache_limit
  /\ call.op = "solve" =>
       /\ (call.evicted # {} => call.len_before = cache_limit /\ call.evicted = {call.oldest})
       /\ (~call.cache_hit /\ ~Raised(ret) /\ call.len_before = cache_limit
             => call.evicted # {} /\ Len(cache) = cache_limit)

C8_Witness ==
  /\ call.op = "solve"
  /\ call.evicted # {}
  /\ Len(cache) = cache_limit
  /\ stats.cache_hits > 0

\* C9: a cache hit issues no index query, leaves kb_hits as it was and returns
\* every field of the result the original call returned, unchanged
C9_CacheHitVerbatim ==
  (call.op = "solve" /\ call.cache_hit)
    => /\ call.index_queries = 0
       /\ stats.kb_hits = call.kb_hits_before
       /\ ret = call.original

\* C10: importing the same directory again with the same library name, in the
\* same process or in another one, leaves the reference row count as the
\* first import left it
C10_ReimportKeepsCount ==
  (imp.op = "import" /\ imp.repeat) => imp.after = imp.before

\* C11: after a reference import, every file of the imported directory has
\* exactly one record under the imported library: no file lost to another
\* file's record, no file recorded twice
C11_OneRecordPerFile ==
  imp.op = "import"
    => \A i \in 1..Len(DocsTree) :
         Cardinality({r \in reference : /\ r.library = imp.library
                                        /\ r.file_path = DocsTree[i].relpath}) = 1

\* C12: after an upsert into the reference collection the row ids held by
\* reference_fts are exactly the row ids of the reference rows
C12_IndexRowAligned ==
  imp.op = "import"
    => {p[1] : p \in reference_fts} = {r.rowid : r \in reference}

\* C13: no two rows of the patterns collection have the same id
C13_PatternIdsUnique ==
  \A r1, r2 \in patterns : (DOMAIN r1 = DOMAIN r2 /\ r1.id = r2.id) => r1.rowid = r2.rowid

\* C14: two synthesis runs in a row over the unchanged reference collection,
\* in one process or in two, give the patterns the same ids
C14_SynthesisIdsStable ==
  (call.op = "synthesize" /\ prev.op = "synthesize") => call.ids = prev.ids

\* C15: synthesis for a library without reference documents, by the script or by
\* the librarian, extracts nothing, leaves patterns and patterns_fts as they
\* were and raises nothing
C15_ZeroDocumentsNoEffect ==
  (call.op \in {"synthesize", "librarian_synthesize"} /\ call.docs = 0)
    => /\ ~Raised(ret)
       /\ call.extracted = <<>>
       /\ patterns = call.patterns_before
       /\ patterns_fts = call.patterns_fts_before

\* C16: a synthesis run does not end in an exception of one document, and what
\* it extracted holds the patterns of every document that can be read
C16_BatchSurvivesDocument ==
  call.op = "synthesize"
    => /\ ret # TypeError
       /\ \A r \in reference :
            (r.library = TcaLibrary /\ ~DocumentRaises(r))
              => \A p \in Range(DocumentPatterns(call.hashfn, r)) :
                   p \in Range(call.extracted)

\* C17: analyze_content, called on an existing directory of candidate files,
\* returns a report holding the four per-pass lists and the uniqueness report
\* and recommendations computed from the pass results of that same call
C17_AnalyzeReturnsReport ==
  (call.op = "analyze_content" /\ DirectoryExists(call.docs_path))
    => /\ ~Raised(ret)
       /\ ret.exact_duplicates = call.passes.exact_duplicates
       /\ ret.topic_overlaps = call.passes.topic_overlaps
       /\ ret.library_conflicts = call.passes.library_conflicts
       /\ ret.version_conflicts = call.passes.version_conflicts
       /\ ret.new_unique_content = calculate_unique_content(call.new_files, call.passes)
       /\ ret.recommendations = generate_recommendations(call.passes)

\* C18: for every candidate batch and every store state the reported
\* uniqueness_percentage lies between 0 and 100, and a batch of zero files
\* yields 0 without any error
C18_PercentageInRange ==
  call.op = "analyze_content"
    => /\ ~Raised(ret)
       /\ ret.new_unique_content.uniqueness_percentage.num >= 0
       /\ ret.new_unique_content.uniqueness_percentage.num
            <= 100 * ret.new_unique_content.uniqueness_percentage.den
       /\ (call.new_files = <<>>
             => ret.new_unique_content.uniqueness_percentage.num = 0)

\* C19: unique_files is the number of candidate files minus the number of
\* distinct candidate files that have an exact duplicate or a topic overlap
\* above 0.7; a file meeting both conditions, or duplicated against several
\* records, is excluded once, so excluded_files + unique_files = total_files
C19_ExcludedOnce ==
  LET exact == call.analysis.exact_duplicates
      overlaps == call.analysis.topic_overlaps
      excluded ==
        {i \in 1..Len(call.new_files) :
           \/ \E d \in 1..Len(exact) :
                 exact[d].new_file = call.new_files[i].relative_path
           \/ \E o \in 1..Len(overlaps) :
                 /\ overlaps[o].new_file = call.new_files[i].relative_path
                 /\ overlaps[o].overlap_score.num * 10 > 7 * overlaps[o].overlap_score.den}
  IN call.op = "calculate_unique_content"
       => /\ ret.total_files = Len(call.new_files)
          /\ ret.unique_files = Len(call.new_files) - Cardinality(excluded)
          /\ ret.excluded_files + ret.unique_files = ret.total_files

\* a batch of two files whose first file has two exact duplicates and an
\* overlap above 0.7 as well, the second file none
C19_Witness ==
  /\ call.op = "calculate_unique_content"
  /\ Len(call.new_files) = 2
  /\ Len(call.analysis.exact_duplicates) = 2
  /\ \A d \in 1..2 : call.analysis.exact_duplicates[d].new_file = "alpha.md"
  /\ call.analysis.exact_duplicates[1] # call.analysis.exact_duplicates[2]
  /\ \E o \in 1..Len(call.analysis.topic_overlaps) :
        /\ call.analysis.topic_overlaps[o].new_file = "alpha.md"
        /\ call.analysis.topic_overlaps[o].overlap_score = Fraction(9, 10)
  /\ \A o \in 1..Len(call.analysis.topic_overlaps) :
        call.analysis.topic_overlaps[o].new_file = "alpha.md"
  /\ ret.excluded_files = 1
  /\ ret.unique_files = 1

\* C20: exact-duplicate detection is whitespace-insensitive and independent of
\* title and library: a candidate file is reported in exact_duplicates whenever
\* its content, every run of whitespace collapsed to one blank and trimmed,
\* equals the equally normalized content of some existing reference record
C20_NormalizedEqualReported ==
  call.op = "analyze_content"
    => \A i \in 1..Len(call.new_files) :
         (\E r \in reference :
             normalize_whitespace(r.content)
               = normalize_whitespace(call.new_files[i].content))
           => \E d \in 1..Len(call.passes.exact_duplicates) :
                call.passes.exact_duplicates[d].new_file
                  = call.new_files[i].relative_path

\* C21: for the directory of three files in which alpha.md and blanks.md are
\* identical after whitespace normalization and guide.md is unique, the
\* analysis reports exactly one exact_duplicates entry, pairing the two
\* identical files, unique_files = 2 and a uniqueness_percentage of 200/3
C21_ThreeFileScenario ==
  (call.op = "analyze_content" /\ call.docs_path = "cand")
    => /\ Len(call.passes.exact_duplicates) = 1
       /\ call.passes.exact_duplicates[1].new_file \in {"alpha.md", "blanks.md"}
       /\ ~Raised(ret)
       /\ ret.exact_duplicates = call.passes.exact_duplicates
       /\ ret.new_unique_content.unique_files = 2
       /\ ret.new_unique_content.uniqueness_percentage.num * 3
            = 200 * ret.new_unique_content.uniqueness_percentage.den

\* C22: a version conflict is flagged for a candidate and an existing title of
\* the target library, both with a version token and of the same content type,
\* exactly when the candidate's version is strictly greater as a version
\* number: major first, then minor as integers, so 1.10 is greater than 1.9
C22_VersionNumberOrder ==
  call.op = "analyze_content"
    => \A i \in 1..Len(call.new_files) : \A r \in reference :
         LET new == TitleVersion(call.new_files[i].title)
             old == TitleVersion(r.title)
             flagged == \E c \in 1..Len(call.passes.version_conflicts) :
                          /\ call.passes.version_conflicts[c].new_file
                               = call.new_files[i].relative_path
                          /\ call.passes.version_conflicts[c].existing_title = r.title
         IN (/\ r.library = call.library_name
             /\ new.digits > 0
             /\ old.digits > 0
             /\ is_same_content_type(call.new_files[i].title, r.title))
              => (flagged <=> \/ new.major > old.major
                              \/ new.major = old.major /\ new.minor > old.minor)

\* C23: duplicate analysis or import pointed at a directory that does not exist
\* ends with a non-fatal result returned to the caller: no exception is raised
\* and the store is unchanged
C23_MissingPathNonFatal ==
  [][(\/ call'.op = "analyze_content" /\ ~DirectoryExists(call'.docs_path)
      \/ call'.op = "import" /\ call'.docs_path = "nowhere")
       => (~Raised(ret') /\ UNCHANGED storeVars)]_vars

-----------------------------------------------------------------------------
(* Knowledge documents that link one another *)

\* documents of 300 bytes that name one another: a.md names [[B]] twice, b.md
\* names [[A]], c.md names [[A]] and itself; the last is a.md after an edit
\* that leaves one [[B]]
LinkedFiles ==
  LET LinkedFile(name, title, links) ==
        [path |-> name, name |-> name, title |-> title, content |-> {Wa},
         tags |-> <<>>, size |-> 300, links |-> links]
  IN {LinkedFile("a.md", "A", <<"B", "B">>), LinkedFile("b.md", "B", <<"A">>),
      LinkedFile("c.md", "C", <<"A", "C">>), LinkedFile("a.md", "A", <<"B">>)}

InitRel ==
  /\ repo = {}
  /\ tables = {}
  /\ EmptyStore
  /\ patterns = {}
  /\ patterns_fts = {}
  /\ reference = {}
  /\ reference_fts = {}
  /\ hashfn = SomeHash
  /\ IdleObjects

NextRel ==
  \/ \E order \in Orders(repo) : MaxwellKnowledgeBase(order)
  \/ \E order \in Orders(repo) :
        /\ "knowledge" \in tables
        /\ update_knowledge_base(order)
  \/ \E f \in LinkedFiles :
        /\ \A g \in repo : g.path = f.path => g = f
        /\ EditRepository(f)

SpecRel == InitRel /\ [][NextRel]_vars

\* a step in which _import_knowledge_content ran over the repository
ImportStep ==
  /\ repo' = repo
  /\ \/ call'.op = "update" /\ <<knowledge, relations, call>>' # <<knowledge, relations, call>>
     \/ call'.op = "construct" /\ knowledge = {} /\ tables' # tables

\* C24: when a file of a batch fails, every other file of the batch is still
\* imported and the failed file leaves neither a record row nor an index row
C24_FailedFileAloneSkipped ==
  [][ImportStep =>
       /\ \A f \in repo : f.name \notin call'.failed
            => \E r \in knowledge' : r.id = f.name
       /\ \A n \in call'.failed :
            ~\E r \in knowledge' :
               /\ r.id = n
               /\ Postings(r.rowid, r.content) \subseteq knowledge_fts']_vars

\* C26: after an import every document's outbound edges are targets resolved
\* from the links of its current content, and a document that links one
\* target more than once is imported successfully with a single edge
C26_EdgesAreResolvedLinks ==
  [][ImportStep =>
       \A f \in repo :
         /\ f.name \notin call'.failed
         /\ {e[2] : e \in {x \in relations' : x[1] = f.name}}
              \subseteq {r.id : r \in {x \in knowledge' : \E i \in 1..Len(f.links) :
                                                          x.title = f.links[i]}}]_vars

-----------------------------------------------------------------------------
(* The import workflow, run from the skill and from the import manager *)

\* the import manager called directly, its subprocess hashing str with
\* SomeHash or with a function that gives both paths of DocsTree one value,
\* and the skill's workflow over an installed migration script
NextWorkflow ==
  \/ \E docs_path \in {"docs", "empty", "nowhere"}, library_name \in {"Lib", "Other"},
        skip_duplicates_check \in BOOLEAN, choice \in {"y", ""},
        installed \in BOOLEAN, h \in {SomeHash, [p \in RelPaths |-> 3]} :
        ImportManager_import_documentation(docs_path, library_name,
                                           skip_duplicates_check, choice, installed, h)
  \/ \E docs_path \in {"docs", "empty", "nowhere"},
        skip_duplicates_check \in BOOLEAN, answer \in {"y", ""} :
        MaxwellLibrarian_import_documentation(docs_path, "Lib", skip_duplicates_check,
                                              answer, "y", TRUE, SomeHash)

SpecWorkflow == Init /\ [][NextWorkflow]_vars

C27_StructuredResult ==
  call.op = "librarian_import" => (~Raised(ret) /\ "success" \in DOMAIN ret)

\* C28: ImportManager.import_documentation with skip_duplicates_check = True on
\* an existing directory runs neither analysis nor prompt, runs the import and
\* then the validation, and returns the final report
C28_SkipPathCompletes ==
  (/\ call.op = "manager_import"
   /\ call.skip_duplicates_check
   /\ DirectoryExists(call.docs_path))
    => /\ ~Raised(ret)
       /\ call.steps = <<"import", "validation">>
       /\ ret.status \in {"success", "error"}

-----------------------------------------------------------------------------
(* Search statistics of the two front ends over one database *)

\* one process that constructs the knowledge base, migrates, imports and asks
\* both front ends
NextStats ==
  \/ MaxwellKnowledgeBase(<<F1, F2>>)
  \/ migrate_to_hybrid_schema
  \/ import_reference_documentation("docs", "Lib")
  \/ \E q \in {Wa, <<"@", "a">>} : Hybrid_search(q, DefaultLimit, 1)
  \/ \E q \in {Wa, Wb, <<"@">>} :
        /\ "knowledge" \in tables
        /\ stats.total_queries < MaxCalls
        /\ solve_developer_problem(q, 1)
        /\ UNCHANGED asked

SpecStats == Init /\ [][NextStats]_vars

\* C29: every search call adds one to total_queries and to at most one hit
\* counter, no other operation changes the statistics (a new object starts
\* them at zero), and the hit counters together never exceed total_queries
C29_StatsConsistent ==
  /\ [](/\ stats.kb_hits + stats.cache_hits <= stats.total_queries
        /\ hstats.pattern_hits + hstats.reference_hits <= hstats.total_queries)
  /\ [][/\ call'.op = "solve"
             => /\ stats'.total_queries = stats.total_queries + 1
                /\ <<stats'.kb_hits, stats'.cache_hits>>
                     \in {<<stats.kb_hits, stats.cache_hits>>,
                          <<stats.kb_hits + 1, stats.cache_hits>>,
                          <<stats.kb_hits, stats.cache_hits + 1>>}
        /\ call'.op = "construct" => stats' = ZeroStats
        /\ call'.op \notin {"solve", "construct"} => stats' = stats
        /\ call'.op = "search"
             => /\ hstats'.total_queries = hstats.total_queries + 1
                /\ <<hstats'.pattern_hits, hstats'.reference_hits>>
                     \in {<<hstats.pattern_hits, hstats.reference_hits>>,
                          <<hstats.pattern_hits + 1, hstats.reference_hits>>,
                          <<hstats.pattern_hits, hstats.reference_hits + 1>>}
        /\ call'.op # "search" => hstats' = hstats]_vars

\* both front ends have answered from the store, the knowledge base has served
\* a query from its cache, and a query that raised has been counted
C29_Witness ==
  /\ stats.kb_hits >= 1
  /\ stats.cache_hits >= 1
  /\ stats.total_queries > stats.kb_hits + stats.cache_hits
  /\ hstats.pattern_hits >= 1
  /\ hstats.total_queries > hstats.pattern_hits

\* C30: update_knowledge_base reimports the tables and leaves the query cache
\* as it was, and a query found in the cache is answered with the cached
\* status, solution and source, whatever the store holds by then
C30_UpdateKeepsCache ==
  [][repo' = repo =>
       /\ call'.op = "update" => (cache' = cache /\ insertedAt' = insertedAt)
       /\ (call'.op = "solve" /\ get_cache_key(call'.query) \in CacheKeys)
            => LET cached == CacheValue(get_cache_key(call'.query))
               IN /\ cache' = cache
                  /\ ret'.status = cached.status
                  /\ ret'.solution = cached.solution
                  /\ ret'.source = cached.source]_vars

\* a query answered from the cache with a document that the store, updated
\* since, no longer returns for it
C30_Witness ==
  /\ call.op = "solve"
  /\ call.cache_hit
  /\ ret.status = "knowledge_found"
  /\ LET fresh == KB_search_knowledge(call.query, DefaultLimit)
     IN fresh = <<>> \/ fresh[1].title # ret.source

=============================================================================
